---- MODULE Spec2Model ----
(***************************************************************************)
(* WBS identifier classification and tabular transformation pipeline of    *)
(* the SAP project-system report generators (desktop "GUI Env" programs,   *)
(* the shared framework in data_processor_base.py and the Django services  *)
(* under reports/services).                                                *)
(*                                                                         *)
(* Text is modelled as a tuple of one-character strings, so that trimming, *)
(* splitting, joining and pattern matching are computed character by       *)
(* character as the Python code computes them.                             *)
(***************************************************************************)
EXTENDS Integers, Sequences, FiniteSets, TLC

VARIABLES
    wbs_list,   \* the identifier list handed to a classifier
    cls,        \* the last classifier call: method, result lists, exception
    files,      \* the file system: file name -> sequence of lines, or Absent
    summary,    \* DataProcessor.summary (isSummaryExport): "unset", "True", "False"
    pattern,    \* the removal pattern the budget-report cleaner applied
    err,        \* the exception the caller of the last operation observed
    last,       \* the last cleaning call: source, target, pattern, lines read
    prov,       \* for each file written by clean_dat_file: how it was produced
    detail,     \* the compound "Object" field handed to a detail parser
    parsed,     \* the last parser call: parser, level, description, id
    master,     \* the master sources: source name -> table, or Missing
    cache,      \* MasterDataManager._master_data_cache: path -> table, or NoEntry
    table,      \* the transaction table handed to the mapper: rows of id, description
    mcall,      \* the last master-data call: operation, arguments, what it did
    run,        \* the stages a report run has completed, and its output table
    call        \* the last call of a stand-alone function: arguments and result

vars == <<wbs_list, cls, files, summary, pattern, err, last, prov, detail, parsed,
          master, cache, table, mcall, run, call>>

----------------------------------------------------------------------------
(* Bounds of the model *)

MaxLen == 3         \* longest identifier list handed to a classifier
MaxLines == 6       \* longest file handed to clean_dat_file, in lines
MaxRaw == 8         \* longest raw budget-report export, in lines
MaxWords == 2       \* most description words in a detail field

----------------------------------------------------------------------------
(* Text helpers: Python str methods *)

WS == {" "}

Digits == {"0", "1", "2", "3", "4", "5", "6", "7", "8", "9"}

Uppers ==
    {"A", "B", "C", "D", "E", "F", "G", "H", "I", "J", "K", "L", "M",
     "N", "O", "P", "Q", "R", "S", "T", "U", "V", "W", "X", "Y", "Z"}

Lowers ==
    {"a", "b", "c", "d", "e", "f", "g", "h", "i", "j", "k", "l", "m",
     "n", "o", "p", "q", "r", "s", "t", "u", "v", "w", "x", "y", "z"}

\* \w of the re module
IsWordChar(c) == c \in Uppers \cup Lowers \cup Digits \cup {"_"}

IsDigit(c) == c \in Digits

DigitChars == <<"0", "1", "2", "3", "4", "5", "6", "7", "8", "9">>

\* f"{i:02d}" for 0 <= i <= 99
Format02d(i) == <<DigitChars[(i \div 10) + 1], DigitChars[(i % 10) + 1]>>

RECURSIVE LStrip(_)
LStrip(s) == IF s # <<>> /\ Head(s) \in WS THEN LStrip(Tail(s)) ELSE s

RECURSIVE RStrip(_)
RStrip(s) ==
    IF s # <<>> /\ s[Len(s)] \in WS THEN RStrip(SubSeq(s, 1, Len(s) - 1)) ELSE s

\* str.strip()
Strip(s) == RStrip(LStrip(s))

\* str.split(): the maximal runs of non-whitespace characters
RECURSIVE SplitAcc(_, _, _)
SplitAcc(s, cur, acc) ==
    IF s = <<>> THEN (IF cur = <<>> THEN acc ELSE Append(acc, cur))
    ELSE IF Head(s) \in WS
         THEN SplitAcc(Tail(s), <<>>, IF cur = <<>> THEN acc ELSE Append(acc, cur))
    ELSE SplitAcc(Tail(s), Append(cur, Head(s)), acc)

Split(s) == SplitAcc(s, <<>>, <<>>)

\* sep.join(parts)
RECURSIVE Join(_, _)
Join(sep, parts) ==
    IF parts = <<>> THEN <<>>
    ELSE IF Len(parts) = 1 THEN parts[1]
    ELSE parts[1] \o sep \o Join(sep, Tail(parts))

\* the null values a pandas column can hold, as tuples that are no text
NONE == <<"<None>">>
NAN == <<"<nan>">>
NA == <<"<NA>">>

\* pd.isna(x) for a scalar
IsNa(x) == x \in {NONE, NAN, NA}

\* str(x)
Str(x) ==
    IF x = NONE THEN <<"N", "o", "n", "e">>
    ELSE IF x = NAN THEN <<"n", "a", "n">>
    ELSE IF x = NA THEN <<"<", "N", "A", ">">>
    ELSE x

\* bool(x); bool(pd.NA) raises TypeError and is decided by the callers
Truthy(x) == IF x = NONE THEN FALSE ELSE IF x = NAN THEN TRUE ELSE x # <<>>

\* list(dict.fromkeys(s)): first occurrences, in order
RECURSIVE Dedup(_)
Dedup(s) ==
    IF s = <<>> THEN <<>>
    ELSE LET r == Dedup(SubSeq(s, 1, Len(s) - 1))
             x == s[Len(s)]
         IN  IF \E i \in 1..Len(r) : r[i] = x THEN r ELSE Append(r, x)

SeqToSet(s) == {s[i] : i \in 1..Len(s)}

MapStrip(s) == [i \in 1..Len(s) |-> Strip(Str(s[i]))]

\* every ordering of a finite set, as sequences
RECURSIVE Orderings(_)
Orderings(S) ==
    IF S = {} THEN {<<>>}
    ELSE UNION {{<<x>> \o rest : rest \in Orderings(S \ {x})} : x \in S}

----------------------------------------------------------------------------
(* Hierarchy classifier *)

\* re.compile(re.escape(p) + r"-\d{2}").match(s): s starts with p-NN
ChildPrefixMatch(p, s) ==
    /\ Len(s) >= Len(p) + 3
    /\ SubSeq(s, 1, Len(p)) = p
    /\ s[Len(p) + 1] = "-"
    /\ IsDigit(s[Len(p) + 2])
    /\ IsDigit(s[Len(p) + 3])

\* re.compile(re.escape(p) + r"-\d{2}").fullmatch(s)
ChildFullMatch(p, s) ==
    /\ Len(s) = Len(p) + 3
    /\ SubSeq(s, 1, Len(p)) = p
    /\ s[Len(p) + 1] = "-"
    /\ IsDigit(s[Len(p) + 2])
    /\ IsDigit(s[Len(p) + 3])

\* WBSProcessor.classify_wbs_elements of the shared framework
classify_wbs_elements(list) ==
    IF list = <<>> THEN [summary |-> <<>>, transaction |-> <<>>]
    ELSE
    LET unique_wbs == Dedup(list)
        Kept(wbs) == ~(IsNa(wbs) \/ Strip(Str(wbs)) = <<>>)
        HasChild(wbs) ==
            \E i \in 1..Len(unique_wbs) :
                LET item == unique_wbs[i]
                IN  /\ ~IsNa(item)
                    /\ Truthy(item)
                    /\ item # wbs
                    /\ ChildFullMatch(Strip(Str(wbs)), Strip(Str(item)))
        IsSummary(wbs) == Kept(wbs) /\ HasChild(wbs)
        IsTransaction(wbs) == Kept(wbs) /\ ~HasChild(wbs)
    IN  [summary |-> MapStrip(SelectSeq(unique_wbs, IsSummary)),
         transaction |-> MapStrip(SelectSeq(unique_wbs, IsTransaction))]

\* BudgetVarianceProcessor.process_wbs: the -01..-99 membership probe.
\* transaction_wbs_set keeps the raw items; its list() order is arbitrary.
ProbeKept(wbs) == Truthy(wbs) /\ Strip(Str(wbs)) # <<>>

ProbeSet(list) == {list[i] : i \in {j \in 1..Len(list) : ProbeKept(list[j])}}

ProbeIsParent(set, wbs) ==
    LET wbs_str == Strip(Str(wbs))
    IN  \E i \in 1..99 : (wbs_str \o <<"-">> \o Format02d(i)) \in set

ProbeSummary(list) ==
    LET transaction_wbs_set == ProbeSet(list)
        IsParent(wbs) == ProbeKept(wbs) /\ ProbeIsParent(transaction_wbs_set, wbs)
    IN  MapStrip(SelectSeq(list, IsParent))

\* str.lower(), on the letters the model uses
LowerChar(c) ==
    CASE c = "A" -> "a" [] c = "B" -> "b" [] c = "C" -> "c" [] c = "D" -> "d"
      [] c = "E" -> "e" [] c = "F" -> "f" [] c = "G" -> "g" [] c = "H" -> "h"
      [] c = "I" -> "i" [] c = "J" -> "j" [] c = "K" -> "k" [] c = "L" -> "l"
      [] c = "M" -> "m" [] c = "N" -> "n" [] c = "O" -> "o" [] c = "P" -> "p"
      [] c = "Q" -> "q" [] c = "R" -> "r" [] c = "S" -> "s" [] c = "T" -> "t"
      [] c = "U" -> "u" [] c = "V" -> "v" [] c = "W" -> "w" [] c = "X" -> "x"
      [] c = "Y" -> "y" [] c = "Z" -> "z"
      [] OTHER -> c

Lower(s) == [i \in 1..Len(s) |-> LowerChar(s[i])]

\* BudgetUpdatesProcessor.process_wbs: all-pairs regex over the cleaned list,
\* which keeps duplicates and str(pd.NA)
UpdatesCleaned(list) ==
    LET Kept(wbs) ==
            /\ wbs # NONE
            /\ wbs # NAN
            /\ Strip(Str(wbs)) # <<>>
            /\ Lower(Strip(Str(wbs))) # <<"n", "a", "n">>
    IN  MapStrip(SelectSeq(list, Kept))

updates_process_wbs(list) ==
    LET cleaned_wbs_list == UpdatesCleaned(list)
        HasChild(wbs) ==
            \E i \in 1..Len(cleaned_wbs_list) :
                /\ cleaned_wbs_list[i] # wbs
                /\ ChildFullMatch(wbs, cleaned_wbs_list[i])
        NoChild(wbs) == ~HasChild(wbs)
    IN  [summary |-> SelectSeq(cleaned_wbs_list, HasChild),
         transaction |-> SelectSeq(cleaned_wbs_list, NoChild)]

----------------------------------------------------------------------------
(* Identifier lists the classifiers are run on.  The classification is      *)
(* computed once per table, so a behaviour holds one classifier call.      *)

A0 == <<"A">>
A0pad == <<" ", "A">>
A01 == <<"A", "-", "0", "1">>
A00 == <<"A", "-", "0", "0">>
A0102 == <<"A", "-", "0", "1", "-", "0", "2">>
AB == <<"A", "B">>
Blank == <<" ">>

IdPool == {A0, A0pad, A01, A00, A0102, AB, Blank, NONE, NAN, NA}

WbsLists == UNION {[1..n -> IdPool] : n \in 0..MaxLen}

NoCall == [method |-> "none", summary |-> <<>>, transaction |-> <<>>, raised |-> "none"]

\* the files of a run: the raw export and the cleaner's output files
FileNames == {"raw", "cleaned", "recleaned"}

\* the content of a file that does not exist (no list of lines)
Absent == <<[no |-> -1, words |-> <<"<absent>">>]>>

NoError == <<>>

NoClean == [op |-> "none", src |-> "none", dst |-> "none", pat |-> "none",
            read |-> <<>>, srcprov |-> "none"]

NoField == [text |-> <<>>, lead |-> <<>>, words |-> <<>>, id |-> <<>>, order |-> "default"]

NoParse == [parser |-> "none", level |-> <<>>, description |-> <<>>, id |-> <<>>]

\* the content of a master source that does not exist or cannot be reached
Missing == <<[key |-> <<"<missing>">>, name |-> <<"<missing>">>]>>

\* the master sources: the workbook Config.MASTER_WBS_FILE, another workbook,
\* and the WBSElement table of the Django database
Paths == {"MASTER_WBS_FILE", "other.xlsx"}

Sources == Paths \cup {"WBSElement"}

\* no entry of _master_data_cache
NoEntry == <<[key |-> <<"<no entry>">>, name |-> <<"<no entry>">>]>>

\* no master-data call yet; loaded records, for each path, the table the first
\* successful load_master_data of that path returned
NoMap == [op |-> "none", path |-> "none", before |-> <<>>, source |-> <<>>,
          known |-> NoEntry, read |-> "none", returned |-> <<>>,
          loaded |-> [p \in Paths |-> NoEntry]]

NoRun == [variant |-> "none", export |-> "none", input |-> <<>>, stages |-> <<>>,
          columns |-> <<>>, rows |-> <<>>, cleaned |-> "absent", fills |-> <<>>,
          html |-> <<>>]

\* no stand-alone function has been called
Idle == [op |-> "none", arg |-> <<>>, result |-> <<>>]

\* no master-data call and no report run has happened
MasterRunIdle ==
    /\ master = [s \in Sources |-> Missing]
    /\ cache = [p \in Paths |-> NoEntry]
    /\ table = <<>>
    /\ mcall = NoMap
    /\ run = NoRun

MasterIdle == MasterRunIdle /\ call = Idle

InitClassify ==
    /\ MasterIdle
    /\ wbs_list \in WbsLists
    /\ cls = NoCall
    /\ files = [f \in FileNames |-> Absent]
    /\ summary = "unset"
    /\ pattern = "none"
    /\ err = NoError
    /\ last = NoClean
    /\ prov = [f \in FileNames |-> "none"]
    /\ detail = NoField
    /\ parsed = NoParse

\* a call of WBSProcessor.classify_wbs_elements(wbs_list)
ClassifyWbsElements ==
    /\ cls = NoCall
    /\ LET r == classify_wbs_elements(wbs_list)
       IN  cls' = [method |-> "regex", summary |-> r.summary,
                   transaction |-> r.transaction, raised |-> "none"]
    /\ UNCHANGED <<wbs_list, files, summary, pattern, err, last, prov, call, detail, parsed,
                   master, cache, table, mcall, run>>

\* a call of BudgetVarianceProcessor.process_wbs(wbs_list)
ProcessWbsProbe ==
    /\ cls = NoCall
    /\ IF \E i \in 1..Len(wbs_list) : wbs_list[i] = NA
       THEN cls' = [method |-> "probe", summary |-> <<>>, transaction |-> <<>>,
                    raised |-> "TypeError"]
       ELSE \E order \in Orderings(ProbeSet(wbs_list)) :
                cls' = [method |-> "probe",
                        summary |-> ProbeSummary(wbs_list),
                        transaction |-> order,
                        raised |-> "none"]
    /\ UNCHANGED <<wbs_list, files, summary, pattern, err, last, prov, call, detail, parsed,
                   master, cache, table, mcall, run>>

\* a call of BudgetUpdatesProcessor.process_wbs(wbs_list)
ProcessWbsUpdates ==
    /\ cls = NoCall
    /\ LET r == updates_process_wbs(wbs_list)
       IN  cls' = [method |-> "updates", summary |-> r.summary,
                   transaction |-> r.transaction, raised |-> "none"]
    /\ UNCHANGED <<wbs_list, files, summary, pattern, err, last, prov, call, detail, parsed,
                   master, cache, table, mcall, run>>

(* Exceptions: a raised exception is the chain of its kind and error code   *)
(* followed by the exceptions it wraps (original_error), outermost first.  *)

Exc(kind, code) == <<[kind |-> kind, code |-> code]>>

Wrap(kind, code, e) == Exc(kind, code) \o e

KnownKinds == {"FileProcessingError", "DataValidationError", "ExcelGenerationError"}

\* handle_error of error_handler.py (desktop framework)
HandleErrorGui(e) ==
    IF e = NoError THEN NoError
    ELSE IF e[1].kind = "FileNotFoundError"
         THEN Wrap("FileProcessingError", "FILE_NOT_FOUND", e)
    ELSE IF e[1].kind = "PermissionError"
         THEN Wrap("FileProcessingError", "PERMISSION_DENIED", e)
    ELSE Wrap("SAPReportError", "UNEXPECTED_ERROR", e)

\* handle_error of reports/services/error_handling.py (Django services)
HandleErrorService(e) ==
    IF e = NoError THEN NoError
    ELSE IF e[1].kind \in KnownKinds THEN e
    ELSE IF e[1].kind = "FileNotFoundError"
         THEN Wrap("FileProcessingError", "FILE_NOT_FOUND", e)
    ELSE IF e[1].kind = "PermissionError"
         THEN Wrap("FileProcessingError", "PERMISSION_DENIED", e)
    ELSE Wrap("SAPReportError", "UNEXPECTED_ERROR", e)

handle_error(variant, e) ==
    IF variant = "gui" THEN HandleErrorGui(e) ELSE HandleErrorService(e)

Variants == {"gui", "service"}

\* WBSProcessor.classify_wbs_elements of the Django services: "not wbs" and
\* "item != wbs and item" take the truth value of each entry, which raises
\* TypeError for pd.NA; otherwise it classifies as the framework does
ServiceClassifyRaises(list) == \E i \in 1..Len(list) : list[i] = NA

\* a call of the services' classify_wbs_elements(wbs_list) through its
\* handle_error decorator
ClassifyWbsElementsService ==
    /\ cls = NoCall
    /\ IF ServiceClassifyRaises(wbs_list)
       THEN /\ cls' = [method |-> "service_regex", summary |-> <<>>,
                        transaction |-> <<>>, raised |-> "TypeError"]
            /\ err' = HandleErrorService(Exc("TypeError", "none"))
       ELSE /\ LET r == classify_wbs_elements(wbs_list)
               IN  cls' = [method |-> "service_regex", summary |-> r.summary,
                           transaction |-> r.transaction, raised |-> "none"]
            /\ err' = err
    /\ UNCHANGED <<wbs_list, files, summary, pattern, last, prov, call, detail, parsed,
                   master, cache, table, mcall, run>>

\* DataProcessor.process_wbs of the desktop budget report on a single-project
\* export (self.summary False): re.escape(wbs) and pattern.fullmatch(item)
\* raise TypeError for an entry that is not a string
DesktopProcessWbsRaises(list) == \E i \in 1..Len(list) : IsNa(list[i])

\* the all-pairs loop of DataProcessor.process_wbs
desktop_process_wbs(list) ==
    LET HasChild(wbs) ==
            \E i \in 1..Len(list) : list[i] # wbs /\ ChildFullMatch(wbs, list[i])
        NoChild(wbs) == ~HasChild(wbs)
    IN  [summary |-> SelectSeq(list, HasChild),
         transaction |-> SelectSeq(list, NoChild)]

\* a call of the desktop DataProcessor.process_wbs(wbs_list), self.summary False
DesktopProcessWbs ==
    /\ cls = NoCall
    /\ IF DesktopProcessWbsRaises(wbs_list)
       THEN /\ cls' = [method |-> "desktop", summary |-> <<>>,
                        transaction |-> <<>>, raised |-> "TypeError"]
            /\ err' = Exc("TypeError", "none")
       ELSE /\ LET r == desktop_process_wbs(wbs_list)
               IN  cls' = [method |-> "desktop", summary |-> r.summary,
                           transaction |-> r.transaction, raised |-> "none"]
            /\ err' = err
    /\ UNCHANGED <<wbs_list, files, summary, pattern, last, prov, call, detail, parsed,
                   master, cache, table, mcall, run>>

NextClassify ==
    \/ ClassifyWbsElements \/ ProcessWbsProbe \/ ProcessWbsUpdates
    \/ ClassifyWbsElementsService \/ DesktopProcessWbs

SpecClassify == InitClassify /\ [][NextClassify]_vars

----------------------------------------------------------------------------
(* Line cleaner *)

\* Config.CLEANING_PATTERNS
CLEANING_PATTERNS ==
    [budget_report |-> <<0, 1, 4, -1>>,
     budget_updates |-> <<0, 3, -1>>,
     html_reports |-> <<0, 1>>]

PatternNames == {"budget_report", "budget_updates", "html_reports", "unknown"}

\* CLEANING_PATTERNS.get(cleaning_pattern, CLEANING_PATTERNS["budget_report"])
LinesToRemove(cleaning_pattern) ==
    IF cleaning_pattern \in DOMAIN CLEANING_PATTERNS
    THEN CLEANING_PATTERNS[cleaning_pattern]
    ELSE CLEANING_PATTERNS["budget_report"]

\* an index used as written, a negative one never resolved
ResolveIndexRaw(total_lines, idx) == idx

\* total_lines + idx if idx < 0 else idx
ResolveIndex(total_lines, idx) == IF idx < 0 THEN total_lines + idx ELSE idx

IndicesToRemove(total_lines, lines_to_remove) ==
    {ResolveIndex(total_lines, lines_to_remove[k]) : k \in 1..Len(lines_to_remove)}

\* [line for i, line in enumerate(lines) if i not in indices]; i is zero-based
RECURSIVE KeepLines(_, _)
KeepLines(lines, indices) ==
    IF lines = <<>> THEN <<>>
    ELSE LET n == Len(lines)
             front == KeepLines(SubSeq(lines, 1, n - 1), indices)
         IN  IF (n - 1) \in indices THEN front ELSE Append(front, lines[n])

\* the lines written by mistake when the unfiltered list is written
CleanedLinesUnfiltered(lines, cleaning_pattern) == lines

\* cleaned_lines of clean_dat_file
CleanedLines(lines, cleaning_pattern) ==
    KeepLines(lines, IndicesToRemove(Len(lines), LinesToRemove(cleaning_pattern)))

\* the exception leaving the body of clean_dat_file, before the decorator
CleanBodyError(content) ==
    IF content = Absent THEN Exc("FileProcessingError", "FILE_NOT_FOUND")
    ELSE IF Len(content) = 0
         THEN Wrap("FileProcessingError", "CLEANING_ERROR",
                   Exc("FileProcessingError", "EMPTY_FILE"))
    ELSE NoError

\* a line of an export: its serial number in the raw file and its words
Line(no, words) == [no |-> no, words |-> words]

PlainLines(n) == [i \in 1..n |-> Line(i, <<"x">>)]

InitClean ==
    /\ MasterIdle
    /\ \E n \in 0..MaxLines :
           files \in {[f \in FileNames |-> IF f = "raw" THEN PlainLines(n) ELSE Absent],
                      [f \in FileNames |-> Absent]}
    /\ prov = [f \in FileNames |-> "none"]
    /\ last = NoClean
    /\ err = NoError
    /\ summary = "unset"
    /\ pattern = "none"
    /\ wbs_list = <<>>
    /\ cls = NoCall
    /\ detail = NoField
    /\ parsed = NoParse

\* BaseDataProcessor.clean_dat_file(input_file, output_file, cleaning_pattern),
\* called through its handle_error decorator
CleanDatFile(variant, input_file, output_file, cleaning_pattern) ==
    LET content == files[input_file]
        raised == CleanBodyError(content)
    IN  /\ last' = [op |-> variant, src |-> input_file, dst |-> output_file,
                    pat |-> cleaning_pattern, read |-> content,
                    srcprov |-> prov[input_file]]
        /\ err' = handle_error(variant, raised)
        /\ IF raised = NoError
           THEN /\ files' = [files EXCEPT
                                ![output_file] = CleanedLines(content, cleaning_pattern)]
                /\ prov' = [prov EXCEPT ![output_file] = cleaning_pattern]
           ELSE UNCHANGED <<files, prov>>
        /\ UNCHANGED <<wbs_list, cls, summary, pattern, call, detail, parsed,
                       master, cache, table, mcall, run>>

CleanDatFileGui ==
    \E i \in FileNames, o \in FileNames \ {"raw"}, p \in PatternNames :
        CleanDatFile("gui", i, o, p)

CleanDatFileService ==
    \E i \in FileNames, o \in FileNames \ {"raw"}, p \in PatternNames :
        CleanDatFile("service", i, o, p)

NextClean == CleanDatFileGui \/ CleanDatFileService

SpecClean == InitClean /\ [][NextClean]_vars

----------------------------------------------------------------------------
(* Standard budget report: the cleaner's structural probe and the          *)
(* classification that follows it                                          *)

\* the scan of DataProcessor.clean_data: ctr counts the lines before the first
\* line whose first word is "Object"; line.split()[0] raises IndexError on a
\* line without words
RECURSIVE ScanObject(_, _)
ScanObject(lines, ctr) ==
    IF ctr >= Len(lines) THEN [ctr |-> ctr, raised |-> NoError]
    ELSE IF lines[ctr + 1].words = <<>>
         THEN [ctr |-> ctr, raised |-> Exc("IndexError", "")]
    ELSE IF lines[ctr + 1].words[1] = "Object" THEN [ctr |-> ctr, raised |-> NoError]
    ELSE ScanObject(lines, ctr + 1)

\* lines_to_delete of the single-project export
PatternA(total_lines) == {0, 3, 4, total_lines - 1}

\* lines_to_delete of the summary export
PatternB(total_lines) == {0, 1, 4, total_lines - 1}

\* the branch taken when the sentinel is looked for on the third line
IsIndividual(lines, ctr) == ctr = 2

\* DataProcessor.process_wbs of the desktop budget report; flag is self.summary
gui_process_wbs(flag, list) ==
    IF flag THEN [summary |-> <<>>, transaction |-> list]
    ELSE LET HasChild(wbs) ==
                 \E i \in 1..Len(list) : list[i] # wbs /\ ChildFullMatch(wbs, list[i])
             NoChild(wbs) == ~HasChild(wbs)
         IN  [summary |-> SelectSeq(list, HasChild),
              transaction |-> SelectSeq(list, NoChild)]

LineWords == {<<"Object">>, <<"Report">>, <<>>}

RawExports ==
    UNION {{[i \in 1..n |-> Line(i, w[i])] : w \in [1..n -> LineWords]} : n \in 0..MaxRaw}

\* identifier columns of a cleaned budget table: one identifier per data row
\* below the two header rows
TableIds == UNION {[1..n -> {A0, A01, AB}] : n \in 1..2}

HasRows(cleaned, ids) == cleaned # Absent /\ Len(cleaned) = 2 + Len(ids)

InitBudget ==
    /\ MasterIdle
    /\ \E raw \in RawExports :
           files = [f \in FileNames |-> IF f = "raw" THEN raw ELSE Absent]
    /\ prov = [f \in FileNames |-> "none"]
    /\ last = NoClean
    /\ err = NoError
    /\ summary = "unset"
    /\ pattern = "none"
    /\ wbs_list = <<>>
    /\ cls = NoCall
    /\ detail = NoField
    /\ parsed = NoParse

\* DataProcessor.clean_data of the desktop budget report
CleanDataGui ==
    /\ last = NoClean
    /\ LET lines == files["raw"]
           total_lines == Len(lines)
           scan == ScanObject(lines, 0)
       IN  /\ last' = [op |-> "gui_clean_data", src |-> "raw", dst |-> "cleaned",
                       pat |-> "budget_report", read |-> lines, srcprov |-> "none"]
           /\ err' = scan.raised
           /\ IF scan.raised # NoError
              THEN UNCHANGED <<files, summary, pattern>>
              ELSE IF IsIndividual(lines, scan.ctr)
                   THEN /\ files' = [files EXCEPT
                                !["cleaned"] = KeepLines(lines, PatternA(total_lines))]
                        /\ summary' = "False"
                        /\ pattern' = "A"
                   ELSE /\ files' = [files EXCEPT
                                !["cleaned"] = KeepLines(lines, PatternB(total_lines))]
                        /\ summary' = "True"
                        /\ pattern' = "B"
    /\ UNCHANGED <<wbs_list, cls, prov, call, detail, parsed,
                   master, cache, table, mcall, run>>

\* BudgetReportProcessor.clean_data of the Django service: no probe, no flag
CleanDataService ==
    /\ last = NoClean
    /\ LET lines == files["raw"]
           total_lines == Len(lines)
       IN  /\ last' = [op |-> "service_clean_data", src |-> "raw", dst |-> "cleaned",
                       pat |-> "budget_report", read |-> lines, srcprov |-> "none"]
           /\ files' = [files EXCEPT
                            !["cleaned"] = KeepLines(lines, PatternB(total_lines))]
           /\ pattern' = "B"
           /\ err' = NoError
    /\ UNCHANGED <<wbs_list, cls, summary, prov, call, detail, parsed,
                   master, cache, table, mcall, run>>

\* DataProcessor.process_wbs, run by transform_data on the cleaned table
ProcessWbsGui ==
    /\ last.op = "gui_clean_data"
    /\ err = NoError
    /\ cls = NoCall
    /\ \E ids \in TableIds :
           LET r == gui_process_wbs(summary = "True", ids)
           IN  /\ HasRows(files["cleaned"], ids)
               /\ wbs_list' = ids
               /\ cls' = [method |-> "gui", summary |-> r.summary,
                          transaction |-> r.transaction, raised |-> "none"]
    /\ UNCHANGED <<files, summary, pattern, err, last, prov, call, detail, parsed,
                   master, cache, table, mcall, run>>

\* the classification at the end of BudgetReportProcessor.process_data
ProcessDataService ==
    /\ last.op = "service_clean_data"
    /\ cls = NoCall
    /\ \E ids \in TableIds :
           LET r == classify_wbs_elements(ids)
           IN  /\ HasRows(files["cleaned"], ids)
               /\ wbs_list' = ids
               /\ cls' = [method |-> "service", summary |-> r.summary,
                          transaction |-> r.transaction, raised |-> "none"]
    /\ UNCHANGED <<files, summary, pattern, err, last, prov, call, detail, parsed,
                   master, cache, table, mcall, run>>

NextBudget == CleanDataGui \/ CleanDataService \/ ProcessWbsGui \/ ProcessDataService

SpecBudget == InitBudget /\ [][NextBudget]_vars

----------------------------------------------------------------------------
(* WBS detail parser *)

Star == "*"

\* re.match(Config.REGEX_PATTERNS["wbs_levels"], level) with r"[\*]{1,5}":
\* a match at the start of the token, of one to five asterisks
WbsLevelsMatch(level) == level # <<>> /\ level[1] = Star

\* one element of WBSProcessor.parse_wbs_details
parse_wbs_details(text) ==
    IF IsNa(text) \/ Strip(Str(text)) = <<>>
    THEN [level |-> <<>>, description |-> <<>>, id |-> <<>>]
    ELSE
    LET parts == Split(text)
    IN  IF Len(parts) < 2
        THEN [level |-> <<>>, description |-> text, id |-> <<>>]
        ELSE
        LET level == parts[1]
            description ==
                IF Len(parts) > 2 THEN Join(<<" ">>, SubSeq(parts, 2, Len(parts) - 1))
                ELSE <<>>
            wbs_id == parts[Len(parts)]
        IN  IF ~WbsLevelsMatch(level)
            THEN [level |-> <<>>, description |-> level \o <<" ">> \o description,
                  id |-> wbs_id]
            ELSE [level |-> level, description |-> description, id |-> wbs_id]

\* the level indicators BudgetUpdatesProcessor.process_data accepts
UpdatesLevels == {<<"*">>, <<"*", "*">>, <<"*", "*", "*">>, <<"4", "*">>, <<"5", "*">>}

\* one row of the loop of BudgetUpdatesProcessor.process_data
updates_parse(text) ==
    IF IsNa(text) THEN [level |-> <<" ">>, description |-> <<>>, id |-> <<>>]
    ELSE
    LET details == Split(text)
    IN  IF Len(details) = 0
        THEN [level |-> <<" ">>, description |-> <<>>, id |-> <<>>]
        ELSE
        LET Level == details[1]
            Description ==
                IF Len(details) > 2 THEN Join(<<>>, SubSeq(details, 3, Len(details)))
                ELSE <<>>
            ID == IF Len(details) > 1 THEN details[2] ELSE <<>>
        IN  IF Level \notin UpdatesLevels
            THEN [level |-> <<" ">>, description |-> Strip(Level) \o Strip(Description),
                  id |-> ID]
            ELSE [level |-> Level, description |-> Description, id |-> ID]

\* the length of the run of characters of the set cs at the start of t
RECURSIVE RunLen(_, _)
RunLen(t, cs) == IF t # <<>> /\ Head(t) \in cs THEN 1 + RunLen(Tail(t), cs) ELSE 0

\* re.search(r"^(\*+|\d+\*)", t): the matched text, or NONE
LevelMatch(t) ==
    LET stars == RunLen(t, {Star})
        digits == RunLen(t, Digits)
    IN  IF stars >= 1 THEN SubSeq(t, 1, stars)
        ELSE IF digits >= 1 /\ Len(t) > digits /\ t[digits + 1] = Star
             THEN SubSeq(t, 1, digits + 1)
        ELSE NONE

\* r"[A-Z]{2}-[A-Z]-[A-Z]{3}-\d{3}" matches s at position i (one-based)
IdMatchAt(s, i) ==
    /\ i + 11 <= Len(s)
    /\ s[i] \in Uppers /\ s[i + 1] \in Uppers
    /\ s[i + 2] = "-"
    /\ s[i + 3] \in Uppers
    /\ s[i + 4] = "-"
    /\ s[i + 5] \in Uppers /\ s[i + 6] \in Uppers /\ s[i + 7] \in Uppers
    /\ s[i + 8] = "-"
    /\ IsDigit(s[i + 9]) /\ IsDigit(s[i + 10]) /\ IsDigit(s[i + 11])

\* re.search of the identifier pattern: the first match, or NONE
ProjIdSearch(s) ==
    IF \E i \in 1..Len(s) : IdMatchAt(s, i)
    THEN LET first == CHOOSE i \in 1..Len(s) :
                          IdMatchAt(s, i) /\ \A j \in 1..(i - 1) : ~IdMatchAt(s, j)
         IN  SubSeq(s, first, first + 11)
    ELSE NONE

\* r"\bPRJ\b" matches s at position i
PrjAt(s, i) ==
    /\ i + 2 <= Len(s)
    /\ SubSeq(s, i, i + 2) = <<"P", "R", "J">>
    /\ (i = 1 \/ ~IsWordChar(s[i - 1]))
    /\ (i + 3 > Len(s) \/ ~IsWordChar(s[i + 3]))

\* re.sub(r"(^(\*+|\d+\*)|\bPRJ\b|<identifier>)", "", s), scanning from i
RECURSIVE SubRemove(_, _)
SubRemove(s, i) ==
    IF i > Len(s) THEN <<>>
    ELSE IF i = 1 /\ LevelMatch(s) # NONE THEN SubRemove(s, 1 + Len(LevelMatch(s)))
    ELSE IF PrjAt(s, i) THEN SubRemove(s, i + 3)
    ELSE IF IdMatchAt(s, i) THEN SubRemove(s, i + 12)
    ELSE <<s[i]>> \o SubRemove(s, i + 1)

\* re.sub(r"\s+", " ", d)
RECURSIVE CollapseWs(_)
CollapseWs(d) ==
    IF d = <<>> THEN <<>>
    ELSE IF Head(d) \in WS
         THEN <<" ">> \o CollapseWs(SubSeq(d, 1 + RunLen(d, WS), Len(d)))
    ELSE <<Head(d)>> \o CollapseWs(Tail(d))

\* DataProcessor.extract_parts
extract_parts(s) ==
    [level |-> LevelMatch(Strip(s)),
     desc |-> CollapseWs(Strip(SubRemove(s, 1))),
     proj_id |-> ProjIdSearch(s)]

\* the level markers DataProcessor.transform_data accepts
GuiLevels ==
    {<<"*">>, <<"*", "*">>, <<"*", "*", "*">>, <<"4", "*">>, <<"5", "*">>, <<"6", "*">>}

\* one row of the loop of DataProcessor.transform_data
gui_parse(text) ==
    LET newString == extract_parts(Join(<<" ">>, Split(text)))
        Level == newString.level
        Description == newString.desc
    IN  IF Level \notin GuiLevels
        THEN [level |-> <<" ">>,
              description |-> IF Level = NONE \/ Level = <<" ">> THEN Description
                              ELSE Level \o Description,
              id |-> newString.proj_id]
        ELSE [level |-> Level, description |-> Description, id |-> newString.proj_id]

\* detail fields: an optional leading token, description words and an optional
\* identifier, in the default order (identifier last) or the budget-updates
\* order (identifier second), separated by runs of blanks
LeadPool ==
    {<<"*">>, <<"*", "*", "*">>, <<"4", "*">>, <<"6", "*">>, <<"7", "*">>,
     <<"*", "*", "*", "*", "*", "*">>, <<"*", "x">>, <<"x">>}

WordPool == {<<"d">>, <<"e">>, <<"P", "R", "J">>}

ID1 == <<"A", "B", "-", "C", "-", "D", "E", "F", "-", "0", "0", "1">>
ID101 == ID1 \o <<"-", "0", "1">>
IDMN1 == <<"N", "L", "-", "C", "-", "M", "N", "1", "-", "0", "0", "1">>

IdTokens == {ID1, ID101, IDMN1}

Opt(S) == {<<>>} \cup {<<x>> : x \in S}

WordSeqs == UNION {[1..n -> WordPool] : n \in 0..MaxWords}

Separators == {<<" ">>, <<" ", " ">>}

Field(lead, words, id, order, sep) ==
    [text |-> Join(sep, lead \o (IF order = "default" THEN words \o id ELSE id \o words)),
     lead |-> lead, words |-> words, id |-> id, order |-> order]

Fields ==
    {Field(lead, words, id, order, sep) :
        lead \in Opt(LeadPool), words \in WordSeqs, id \in Opt(IdTokens),
        order \in {"default", "updates"}, sep \in Separators}

InitParse ==
    /\ MasterIdle
    /\ detail \in Fields
    /\ parsed = NoParse
    /\ wbs_list = <<>>
    /\ cls = NoCall
    /\ files = [f \in FileNames |-> Absent]
    /\ prov = [f \in FileNames |-> "none"]
    /\ last = NoClean
    /\ err = NoError
    /\ summary = "unset"
    /\ pattern = "none"

Parsed(parser, r) ==
    [parser |-> parser, level |-> r.level, description |-> r.description, id |-> r.id]

\* WBSProcessor.parse_wbs_details on a one-row series
ParseWbsDetails ==
    /\ parsed = NoParse
    /\ parsed' = Parsed("framework", parse_wbs_details(detail.text))
    /\ UNCHANGED <<wbs_list, cls, files, summary, pattern, err, last, prov, call, detail,
                   master, cache, table, mcall, run>>

\* the row loop of BudgetUpdatesProcessor.process_data on a one-row table
UpdatesParse ==
    /\ parsed = NoParse
    /\ parsed' = Parsed("updates", updates_parse(detail.text))
    /\ UNCHANGED <<wbs_list, cls, files, summary, pattern, err, last, prov, call, detail,
                   master, cache, table, mcall, run>>

\* line.replace("*", " ")
ReplaceStar(t) == IF IsNa(t) THEN t ELSE [i \in 1..Len(t) |-> IF t[i] = Star THEN " " ELSE t[i]]

\* the budget-updates pipeline on a one-row export: clean_data, which
\* replaces every asterisk of the line by a blank, then the row loop of
\* process_data on the cleaned field
UpdatesCleanThenParse ==
    /\ parsed = NoParse
    /\ parsed' = Parsed("updates_pipeline", updates_parse(ReplaceStar(detail.text)))
    /\ UNCHANGED <<wbs_list, cls, files, summary, pattern, err, last, prov, call, detail,
                   master, cache, table, mcall, run>>

\* the row loop of DataProcessor.transform_data on a one-row table
GuiParse ==
    /\ parsed = NoParse
    /\ parsed' = Parsed("gui", gui_parse(detail.text))
    /\ UNCHANGED <<wbs_list, cls, files, summary, pattern, err, last, prov, call, detail,
                   master, cache, table, mcall, run>>

NextParse == ParseWbsDetails \/ UpdatesParse \/ UpdatesCleanThenParse \/ GuiParse

SpecParse == InitParse /\ [][NextParse]_vars

----------------------------------------------------------------------------
(* Master data: MasterDataManager of the framework and of the Django       *)
(* services, and the mapping step of the desktop transform_data            *)

MaxMaster == 2      \* most rows of a master table
MaxRows == 2        \* most rows of a transaction table handed to the mapper

KApad == <<" ", "A", " ">>
KB == <<"B">>
KC == <<"C">>
NameA == <<"a">>
NameB == <<"b">>
OldDesc == <<"d">>

MasterRow(key, name) == [key |-> key, name |-> name]

MasterRowPool == {MasterRow(A0, NameA), MasterRow(KApad, NameA), MasterRow(KB, NameB)}

\* a workbook with one row and without the columns WBS_element and Name
OtherColumns == <<MasterRow(<<"<no column>">>, <<"<no column>">>)>>

HasColumns(t) == t # OtherColumns

\* master tables whose keys stay distinct after trimming
MasterTables ==
    {t \in UNION {[1..n -> MasterRowPool] : n \in 0..MaxMaster} :
        \A i, j \in 1..Len(t) : Strip(t[i].key) = Strip(t[j].key) => i = j}

WorkbookStates == MasterTables \cup {Missing, OtherColumns}

\* df["WBS_element"].astype(str).str.strip()
StripKeys(t) ==
    IF HasColumns(t) THEN [i \in 1..Len(t) |-> MasterRow(Strip(t[i].key), t[i].name)]
    ELSE t

\* dict lookup in set_index("WBS_element")["Name"].to_dict(): the name of
\* the last row with that key, NAN when no row has it
Lookup(t, k) ==
    LET hits == {i \in 1..Len(t) : t[i].key = k}
    IN  IF IsNa(k) \/ hits = {} THEN NAN
        ELSE t[CHOOSE i \in hits : \A j \in hits : j <= i].name

\* Series.fillna(other) for one cell
FillNa(v, other) == IF IsNa(v) THEN other ELSE v

TRow(id, description) == [id |-> id, description |-> description]

\* transaction_df[wbs_column].map(mapping).fillna(transaction_df[description_column])
MapFillna(rows, mapping) ==
    [i \in 1..Len(rows) |->
        TRow(rows[i].id, FillNa(Lookup(mapping, rows[i].id), rows[i].description))]

\* the mapping step without the fillna: an identifier the index lacks gets NaN
MapOnly(rows, mapping) ==
    [i \in 1..Len(rows) |-> TRow(rows[i].id, Lookup(mapping, rows[i].id))]

\* Series.str.strip() for one cell: a missing value stays missing
StrStrip(v) == IF IsNa(v) THEN NAN ELSE Strip(v)

\* the mapping step of DataProcessor.transform_data: both sides trimmed, the
\* description replaced by the mapped value
GuiMap(rows, master_df) ==
    MapOnly([i \in 1..Len(rows) |-> TRow(StrStrip(rows[i].id), rows[i].description)],
            StripKeys(master_df))

\* "if file_path in self._master_data_cache", with the lookup never succeeding
CacheHitNever(c, p) == FALSE

\* if file_path in self._master_data_cache
CacheHit(c, p) == c[p] # NoEntry

\* the body of MasterDataManager.load_master_data(p) on the cache c and the
\* sources src: the cache it leaves, the exception leaving the body, the
\* table it returns, and whether it read the source
LoadBody(c, src, p) ==
    IF CacheHit(c, p)
    THEN [cache |-> c, raised |-> NoError, returned |-> c[p], read |-> "no"]
    ELSE IF src[p] = Missing
    THEN [cache |-> c, raised |-> Exc("FileProcessingError", "FILE_NOT_FOUND"),
          returned |-> <<>>, read |-> "no"]
    ELSE IF Len(src[p]) < 1
    THEN [cache |-> c,
          raised |-> Wrap("FileProcessingError", "MASTER_DATA_ERROR",
                          Exc("DataValidationError", "INSUFFICIENT_DATA")),
          returned |-> <<>>, read |-> "yes"]
    ELSE [cache |-> [c EXCEPT ![p] = StripKeys(src[p])], raised |-> NoError,
          returned |-> StripKeys(src[p]), read |-> "yes"]

\* load_master_data called through its handle_error decorator
LoadDecorated(c, src, p) ==
    LET r == LoadBody(c, src, p)
    IN  [r EXCEPT !.raised = HandleErrorGui(r.raised)]

\* the body of MasterDataManager.map_wbs_descriptions of the framework
FrameworkMapBody(rows, c, src) ==
    LET r == LoadDecorated(c, src, "MASTER_WBS_FILE")
    IN  IF r.raised # NoError
        THEN [rows |-> rows, cache |-> r.cache, raised |-> r.raised]
        ELSE IF ~HasColumns(r.returned)
        THEN [rows |-> rows, cache |-> r.cache, raised |-> NoError]
        ELSE [rows |-> MapFillna(rows, r.returned), cache |-> r.cache,
              raised |-> NoError]

\* the body of MasterDataManager.map_wbs_descriptions of the Django services
ServiceMapBody(rows, src) ==
    LET db == src["WBSElement"]
    IN  IF db = Missing
        THEN [rows |-> rows, raised |-> Exc("OperationalError", "none")]
        ELSE IF db = <<>> THEN [rows |-> rows, raised |-> NoError]
        ELSE [rows |-> MapFillna(rows, db), raised |-> NoError]

\* the mapping step of DataProcessor.transform_data (no decorator)
GuiMapBody(rows, src) ==
    LET m == src["MASTER_WBS_FILE"]
    IN  IF m = Missing
        THEN [rows |-> rows, raised |-> Exc("FileNotFoundError", "none")]
        ELSE IF ~HasColumns(m) THEN [rows |-> rows, raised |-> Exc("KeyError", "none")]
        ELSE [rows |-> GuiMap(rows, m), raised |-> NoError]

\* the rows of a transaction table: a trimmed, a padded, an unknown and a
\* missing identifier, with and without a parsed description
TRowPool == {TRow(id, d) : id \in {A0, KApad, KC, NONE}, d \in {OldDesc, <<>>}}

TransactionTables == UNION {[1..n -> TRowPool] : n \in 0..MaxRows}

InitMap ==
    /\ \E m \in WorkbookStates :
           master = [s \in Sources |->
                        IF s = "WBSElement" /\ m = OtherColumns THEN Missing ELSE m]
    /\ cache = [p \in Paths |-> NoEntry]
    /\ table \in TransactionTables
    /\ mcall = NoMap
    /\ run = NoRun
    /\ call = Idle
    /\ wbs_list = <<>>
    /\ cls = NoCall
    /\ files = [f \in FileNames |-> Absent]
    /\ prov = [f \in FileNames |-> "none"]
    /\ last = NoClean
    /\ err = NoError
    /\ summary = "unset"
    /\ pattern = "none"
    /\ detail = NoField
    /\ parsed = NoParse

MapCall(op, source, r) ==
    [mcall EXCEPT !.op = op, !.path = source, !.before = table,
                  !.source = master[source], !.returned = r.rows]

\* MasterDataManager.map_wbs_descriptions of the framework, called through its
\* handle_error decorator
MapWbsDescriptions ==
    /\ mcall.op = "none"
    /\ LET r == FrameworkMapBody(table, cache, master)
       IN  /\ table' = r.rows
           /\ cache' = r.cache
           /\ err' = HandleErrorGui(r.raised)
           /\ mcall' = MapCall("framework_map", "MASTER_WBS_FILE", r)
    /\ UNCHANGED <<wbs_list, cls, files, summary, pattern, last, prov, call, detail, parsed,
                   master, run>>

\* MasterDataManager.map_wbs_descriptions of the Django services, called
\* through its handle_error decorator
MapWbsDescriptionsService ==
    /\ mcall.op = "none"
    /\ LET r == ServiceMapBody(table, master)
       IN  /\ table' = r.rows
           /\ err' = HandleErrorService(r.raised)
           /\ mcall' = MapCall("service_map", "WBSElement", r)
    /\ UNCHANGED <<wbs_list, cls, files, summary, pattern, last, prov, call, detail, parsed,
                   master, cache, run>>

\* the mapping step of DataProcessor.transform_data
TransformDataMap ==
    /\ mcall.op = "none"
    /\ LET r == GuiMapBody(table, master)
       IN  /\ table' = r.rows
           /\ err' = r.raised
           /\ mcall' = MapCall("gui_map", "MASTER_WBS_FILE", r)
    /\ UNCHANGED <<wbs_list, cls, files, summary, pattern, last, prov, call, detail, parsed,
                   master, cache, run>>

NextMap == MapWbsDescriptions \/ MapWbsDescriptionsService \/ TransformDataMap

SpecMap == InitMap /\ [][NextMap]_vars

TableB == <<MasterRow(KB, NameB)>>

InitCache ==
    /\ \E m \in WorkbookStates, o \in {Missing, TableB} :
           master = [s \in Sources |->
                        IF s = "MASTER_WBS_FILE" THEN m
                        ELSE IF s = "other.xlsx" THEN o ELSE Missing]
    /\ cache = [p \in Paths |-> NoEntry]
    /\ table = <<>>
    /\ mcall = NoMap
    /\ run = NoRun
    /\ call = Idle
    /\ wbs_list = <<>>
    /\ cls = NoCall
    /\ files = [f \in FileNames |-> Absent]
    /\ prov = [f \in FileNames |-> "none"]
    /\ last = NoClean
    /\ err = NoError
    /\ summary = "unset"
    /\ pattern = "none"
    /\ detail = NoField
    /\ parsed = NoParse

\* MasterDataManager.load_master_data(file_path), called through its
\* handle_error decorator
LoadMasterData(file_path) ==
    LET r == LoadDecorated(cache, master, file_path)
    IN  /\ cache' = r.cache
        /\ err' = r.raised
        /\ mcall' = [op |-> "load", path |-> file_path, before |-> table,
                      source |-> master[file_path],
                      known |-> mcall.loaded[file_path],
                      read |-> r.read, returned |-> r.returned,
                      loaded |-> IF r.raised = NoError
                                     /\ mcall.loaded[file_path] = NoEntry
                                 THEN [mcall.loaded EXCEPT ![file_path] = r.returned]
                                 ELSE mcall.loaded]
        /\ UNCHANGED <<wbs_list, cls, files, summary, pattern, last, prov, call, detail,
                       parsed, master, table, run>>

LoadMasterFile == \E p \in Paths : LoadMasterData(p)

\* the master workbook is replaced, emptied or deleted between two calls
SourceChanges ==
    /\ \E m \in WorkbookStates :
           /\ m # master["MASTER_WBS_FILE"]
           /\ master' = [master EXCEPT !["MASTER_WBS_FILE"] = m]
    /\ UNCHANGED <<wbs_list, cls, files, summary, pattern, err, last, prov, call, detail,
                   parsed, cache, table, mcall, run>>

NextCache == LoadMasterFile \/ SourceChanges

SpecCache == InitCache /\ [][NextCache]_vars

----------------------------------------------------------------------------
(* Report runs: the stages of ImprovedBudgetReportProcessor.process_data,   *)
(* of the desktop BudgetReport main, and of the Django services             *)
(* generate_budget_report and generate_budget_updates_report                *)

MaxRunRows == 2     \* most data rows of the export of a report run

RunVariants == {"improved", "gui", "service_report", "service_updates"}

\* the order in which each variant calls its stages
StageOrder(variant) ==
    IF variant = "improved"
    THEN <<"clean", "read", "parse", "map", "classify", "assemble">>
    ELSE IF variant = "gui"
    THEN <<"clean", "read", "parse", "map", "drop", "classify", "assemble">>
    ELSE <<"clean", "read", "parse", "drop", "classify", "map", "assemble",
           "remove", "preview">>

\* column keys of the table read from a cleaned export, and parsed columns
ColObject == <<"WBS_Elements_Info.", "Object">>
ColLevel == <<"WBS_Elements_Info.", "Level">>
ColDescription == <<"WBS_Elements_Info.", "Description">>
ColIdNo == <<"WBS_Elements_Info.", "ID_No">>
ColAmount == <<"Budget", "Amount">>

SlNo == <<"Sl No.">>

\* ' - '.join(col).strip()
Flatten(col) == <<col[1], " - ", col[2]>>

\* the position of a column key in a column list
ColIndex(cols, key) == CHOOSE i \in 1..Len(cols) : cols[i] = key

\* the data rows of an export: the Object field and one amount field; the
\* identifier is the last token, or the second in the budget-updates export
RowObject(variant, lead, words, id) ==
    Join(<<" ">>, IF variant = "service_updates" THEN <<lead, id>> \o words
                  ELSE <<lead>> \o words \o <<id>>)

ExportRows(variant) ==
    {<<RowObject(variant, <<"*">>, <<OldDesc>>, ID1), <<"1">>>>,
     <<RowObject(variant, <<"*", "*">>, <<OldDesc>>, ID101), NAN>>,
     <<RowObject(variant, <<"4", "*">>, <<OldDesc>>, ID1), <<"1">>>>,
     <<RowObject(variant, <<"5", "*">>, <<OldDesc>>, ID101), <<"1">>>>,
     <<NAN, NAN>>}

Exports(variant) == UNION {[1..n -> ExportRows(variant)] : n \in 0..MaxRunRows}

\* the master table of a report run
RunMaster == <<MasterRow(ID1, NameA)>>

\* df[Object].str.split().str[-1] and .str[0] of BudgetReportProcessor.process_data,
\* with the description column set to ''
service_report_parse(object) ==
    IF IsNa(object) \/ Split(object) = <<>>
    THEN [level |-> NAN, description |-> <<>>, id |-> NAN]
    ELSE [level |-> Split(object)[1], description |-> <<>>,
          id |-> Split(object)[Len(Split(object))]]

\* the parser each variant applies to one Object field
RunParse(variant, object) ==
    IF variant = "improved" THEN parse_wbs_details(object)
    ELSE IF variant = "gui" THEN gui_parse(object)
    ELSE IF variant = "service_report" THEN service_report_parse(object)
    ELSE updates_parse(object)

\* the columns of the table after the parsed columns were moved to the front
ParsedColumns(variant) ==
    IF variant = "improved"
    THEN <<ColLevel, ColDescription, ColIdNo, ColObject, ColAmount>>
    ELSE <<ColLevel, ColDescription, ColIdNo, ColAmount>>

\* one row of the table after parsing; row = <<Object, Amount>>
ParsedRow(variant, row) ==
    LET r == RunParse(variant, row[1])
    IN  IF variant = "improved"
        THEN <<r.level, r.description, r.id, row[1], row[2]>>
        ELSE <<r.level, r.description, r.id, row[2]>>

\* the description and identifier cells of the rows, for the mapper
AsTRows(rows) == [i \in 1..Len(rows) |-> TRow(rows[i][3], rows[i][2])]

\* the rows with the descriptions (and identifiers) the mapper returned
WithMapped(rows, trows) ==
    [i \in 1..Len(rows) |->
        [rows[i] EXCEPT ![2] = trows[i].description, ![3] = trows[i].id]]

\* DataFrame.dropna(how="all"): the rows with at least one cell that is not NaN
RECURSIVE DropNaAll(_)
DropNaAll(rows) ==
    IF rows = <<>> THEN <<>>
    ELSE LET rest == DropNaAll(Tail(rows))
             row == Head(rows)
         IN  IF \A c \in 1..Len(row) : IsNa(row[c]) THEN rest ELSE <<row>> \o rest

\* the classifier each variant calls on the identifier column
RunClassify(variant, flag, ids) ==
    IF variant = "gui" THEN gui_process_wbs(flag = "True", ids)
    ELSE IF variant = "service_updates" THEN updates_process_wbs(ids)
    ELSE classify_wbs_elements(ids)

\* the variants whose assembly inserts the serial-number column
InsertsSerial(variant) == variant # "service_report"

\* df.insert(0, 'Sl No.', range(1, len(df) + 1))
InsertSerial(rows) == [i \in 1..Len(rows) |-> <<i>> \o rows[i]]

\* DataProcessor.process_wbs raises TypeError (re.escape, fullmatch) when it
\* classifies a list that holds a missing identifier
gui_process_wbs_raises(flag, list) ==
    ~flag /\ \E i \in 1..Len(list) : IsNa(list[i])

InitRun ==
    /\ \E v \in RunVariants, e \in {"individual", "summary"} :
           /\ v # "gui" => e = "summary"
           /\ \E rows \in Exports(v) :
                  run = [NoRun EXCEPT !.variant = v, !.export = e, !.input = rows]
    /\ master = [s \in Sources |-> RunMaster]
    /\ cache = [p \in Paths |-> NoEntry]
    /\ table = <<>>
    /\ mcall = NoMap
    /\ call = Idle
    /\ wbs_list = <<>>
    /\ cls = NoCall
    /\ files = [f \in FileNames |-> Absent]
    /\ prov = [f \in FileNames |-> "none"]
    /\ last = NoClean
    /\ err = NoError
    /\ summary = "unset"
    /\ pattern = "none"
    /\ detail = NoField
    /\ parsed = NoParse

\* the next call of the run is the stage of that name
StageDue(name) ==
    /\ run.variant \in RunVariants
    /\ err = NoError
    /\ Len(run.stages) < Len(StageOrder(run.variant))
    /\ StageOrder(run.variant)[Len(run.stages) + 1] = name

\* the stage completed, leaving the table with these columns and rows
Completed(name, columns, rows) ==
    [run EXCEPT !.stages = Append(@, name), !.columns = columns, !.rows = rows]

\* the cleaning call of the run: clean_dat_file(..., "budget_report"), the
\* desktop clean_data (which sets self.summary from the sentinel scan), or the
\* clean_data of a service (budget updates: every '*' replaced by a blank)
RunClean ==
    /\ StageDue("clean")
    /\ run' = [Completed("clean", run.columns, run.rows) EXCEPT
                  !.input = IF run.variant = "service_updates"
                            THEN [i \in 1..Len(run.input) |->
                                     <<ReplaceStar(run.input[i][1]), run.input[i][2]>>]
                            ELSE run.input,
                  !.cleaned = "present"]
    /\ summary' = IF run.variant = "gui"
                  THEN (IF run.export = "individual" THEN "False" ELSE "True")
                  ELSE summary
    /\ UNCHANGED <<wbs_list, cls, files, pattern, err, last, prov, call, detail, parsed,
                   master, cache, table, mcall>>

\* read_dat_file / read_data: the data rows under the two header rows;
\* read_dat_file rejects a table without rows
RunRead ==
    /\ StageDue("read")
    /\ IF run.variant # "gui" /\ run.input = <<>>
       THEN /\ err' = IF run.variant = "improved"
                       THEN HandleErrorGui(HandleErrorGui(
                                Exc("DataValidationError", "INSUFFICIENT_DATA")))
                       ELSE Exc("DataValidationError", "INSUFFICIENT_DATA")
            /\ run' = run
       ELSE /\ err' = err
            /\ run' = Completed("read", <<ColObject, ColAmount>>, run.input)
    /\ UNCHANGED <<wbs_list, cls, files, summary, pattern, last, prov, call, detail, parsed,
                   master, cache, table, mcall>>

\* the parsing of the Object column and the move of the parsed columns to
\* the front; the desktop loop raises TypeError on a missing Object field
RunParseStage ==
    /\ StageDue("parse")
    /\ IF run.variant = "gui" /\ \E i \in 1..Len(run.rows) : IsNa(run.rows[i][1])
       THEN /\ err' = Exc("TypeError", "none")
            /\ run' = run
       ELSE /\ err' = err
            /\ run' = Completed("parse", ParsedColumns(run.variant),
                                [i \in 1..Len(run.rows) |->
                                    ParsedRow(run.variant, run.rows[i])])
    /\ UNCHANGED <<wbs_list, cls, files, summary, pattern, last, prov, call, detail, parsed,
                   master, cache, table, mcall>>

\* the master-data mapping of the description column
RunMap ==
    /\ StageDue("map")
    /\ LET rows == AsTRows(run.rows)
           r == IF run.variant = "improved"
                THEN FrameworkMapBody(rows, cache, master)
                ELSE IF run.variant = "gui"
                THEN GuiMapBody(rows, master) @@ [cache |-> cache]
                ELSE ServiceMapBody(rows, master) @@ [cache |-> cache]
       IN  /\ cache' = r.cache
           /\ err' = IF run.variant = "improved"
                      THEN HandleErrorGui(HandleErrorGui(r.raised))
                      ELSE IF run.variant = "gui" THEN r.raised
                      ELSE HandleErrorService(HandleErrorService(r.raised))
           /\ run' = IF r.raised = NoError
                      THEN Completed("map", run.columns, WithMapped(run.rows, r.rows))
                      ELSE run
    /\ UNCHANGED <<wbs_list, cls, files, summary, pattern, last, prov, call, detail, parsed,
                   master, table, mcall>>

\* df.dropna(how="all")
RunDrop ==
    /\ StageDue("drop")
    /\ run' = Completed("drop", run.columns, DropNaAll(run.rows))
    /\ UNCHANGED <<wbs_list, cls, files, summary, pattern, err, last, prov, call, detail,
                   parsed, master, cache, table, mcall>>

\* the classification of the identifier column
RunClassifyStage ==
    /\ StageDue("classify")
    /\ LET ids == [i \in 1..Len(run.rows) |-> run.rows[i][3]]
       IN  /\ wbs_list' = ids
           /\ IF run.variant = "gui" /\ gui_process_wbs_raises(summary = "True", ids)
              THEN /\ err' = Exc("TypeError", "none")
                   /\ UNCHANGED <<run, cls>>
              ELSE /\ err' = err
                   /\ run' = Completed("classify", run.columns, run.rows)
                   /\ LET r == RunClassify(run.variant, summary, ids)
                      IN  cls' = [method |-> run.variant, summary |-> r.summary,
                                  transaction |-> r.transaction, raised |-> "none"]
    /\ UNCHANGED <<files, summary, pattern, last, prov, call, detail, parsed,
                   master, cache, table, mcall>>

\* A fill is the colour of a solid PatternFill, or "none" in a cell that
\* has no fill: "FFFF00" header, "87CEEB" and "FFFFFF" alternating rows,
\* "90EE90" summary highlight.

\* the value openpyxl holds in the cell of a table value
CellValue(x) == IF IsNa(x) THEN NONE ELSE x

\* BudgetExcelFormatter._apply_styles: the header fill on sheet row 1
ApplyStyles(fills) ==
    [r \in 1..Len(fills) |->
        IF r = 1 THEN [c \in 1..Len(fills[r]) |-> "FFFF00"] ELSE fills[r]]

\* BudgetUpdatesExcelFormatter._apply_header_format: the header fill on sheet
\* rows 1 and 2, the alternating fills on the rows below
ApplyHeaderFormat(fills) ==
    [r \in 1..Len(fills) |->
        [c \in 1..Len(fills[r]) |->
            IF r \in {1, 2} THEN "FFFF00"
            ELSE IF r % 2 = 0 THEN "87CEEB" ELSE "FFFFFF"]]

\* _highlight_summary_rows: the summary fill on every cell of the visited
\* sheet rows whose identifier cell is in the summary list; sheet row r
\* holds table row r - 1
HighlightSummaryRows(fills, rows, summary_wbs_list, id_col_idx, min_row) ==
    IF summary_wbs_list = <<>> \/ id_col_idx = -1 THEN fills
    ELSE [r \in 1..Len(fills) |->
            IF /\ r >= min_row
               /\ CellValue(rows[r - 1][id_col_idx]) \in SeqToSet(summary_wbs_list)
            THEN [c \in 1..Len(fills[r]) |-> "90EE90"]
            ELSE fills[r]]

\* the fills of the workbook format_and_save of a service leaves: one row of
\* cells for the header line to_excel writes and one for each table row;
\* the highlight visits the sheet rows from min_row on (3 in
\* BudgetUpdatesExcelFormatter, 2 in BudgetExcelFormatter)
SheetFills(variant, columns, rows, summary_wbs_list, id_col_idx) ==
    LET blank == [r \in 1..(Len(rows) + 1) |-> [c \in 1..Len(columns) |-> "none"]]
    IN  HighlightSummaryRows(
            IF variant = "service_updates" THEN ApplyHeaderFormat(blank)
            ELSE ApplyStyles(blank),
            rows, summary_wbs_list, id_col_idx, IF variant = "service_updates" THEN 3 ELSE 2)

\* id_col_idx of format_and_save: the 1-based position of the ID_No column
\* key before the keys are flattened, or -1
IdColIdx(columns) ==
    IF \E i \in 1..Len(columns) : columns[i] = ColIdNo
    THEN ColIndex(columns, ColIdNo)
    ELSE -1

\* the variants whose assembly is the format_and_save of a Django service
ServiceVariants == {"service_report", "service_updates"}

\* the assembly of the output table: the column keys flattened to labels
\* and, except in BudgetExcelFormatter, the serial-number column inserted;
\* in the services the same call writes and styles the workbook
RunAssemble ==
    /\ StageDue("assemble")
    /\ LET labels == [c \in 1..Len(run.columns) |-> Flatten(run.columns[c])]
           columns == IF InsertsSerial(run.variant) THEN <<SlNo>> \o labels ELSE labels
           rows == IF InsertsSerial(run.variant) THEN InsertSerial(run.rows) ELSE run.rows
           found == IdColIdx(run.columns)
           id_col_idx == IF found # -1 /\ InsertsSerial(run.variant)
                         THEN found + 1 ELSE found
       IN  run' = [Completed("assemble", columns, rows) EXCEPT
                      !.fills = IF run.variant \in ServiceVariants
                                THEN SheetFills(run.variant, columns, rows, cls.summary,
                                                id_col_idx)
                                ELSE @]
    /\ UNCHANGED <<wbs_list, cls, files, summary, pattern, err, last, prov, call, detail,
                   parsed, master, cache, table, mcall>>

\* os.remove(cleaned_path) of a report generator, after format_and_save
RunRemove ==
    /\ StageDue("remove")
    /\ run' = [Completed("remove", run.columns, run.rows) EXCEPT !.cleaned = "absent"]
    /\ UNCHANGED <<wbs_list, cls, files, summary, pattern, err, last, prov, call, detail,
                   parsed, master, cache, table, mcall>>

\* the characters of the names that make up the column labels
NameChars ==
    ("WBS_Elements_Info." :> <<"W", "B", "S", "_", "E", "l", "e", "m", "e", "n", "t", "s", "_", "I", "n", "f", "o", ".">>)
    @@ ("Level" :> <<"L", "e", "v", "e", "l">>)
    @@ ("Description" :> <<"D", "e", "s", "c", "r", "i", "p", "t", "i", "o", "n">>)
    @@ ("ID_No" :> <<"I", "D", "_", "N", "o">>)
    @@ ("Object" :> <<"O", "b", "j", "e", "c", "t">>)
    @@ ("Budget" :> <<"B", "u", "d", "g", "e", "t">>)
    @@ ("Amount" :> <<"A", "m", "o", "u", "n", "t">>)
    @@ ("Sl No." :> <<"S", "l", " ", "N", "o", ".">>)
    @@ (" - " :> <<" ", "-", " ">>)

\* str(col).lower() of a column label
RECURSIVE LabelLower(_)
LabelLower(label) ==
    IF label = <<>> THEN <<>>
    ELSE Lower(NameChars[Head(label)]) \o LabelLower(Tail(label))

\* sub in text
Contains(text, sub) ==
    \E i \in 1..(Len(text) - Len(sub) + 1) : SubSeq(text, i, i + Len(sub) - 1) = sub

\* id_column of generate_formatted_html: the position of the first column
\* whose lower-cased label contains 'id' or 'wbs', or 0 for None
HtmlIdColumn(columns) ==
    LET hit(i) == \/ Contains(LabelLower(columns[i]), <<"i", "d">>)
                  \/ Contains(LabelLower(columns[i]), <<"w", "b", "s">>)
    IN  IF \E i \in 1..Len(columns) : hit(i)
        THEN CHOOSE i \in 1..Len(columns) : hit(i) /\ \A j \in 1..(i - 1) : ~hit(j)
        ELSE 0

\* the class attribute generate_formatted_html gives the <tr> of each row
RowClasses(columns, rows, summary_wbs_list) ==
    LET id_column == HtmlIdColumn(columns)
    IN  [i \in 1..Len(rows) |->
            IF /\ id_column # 0
               /\ summary_wbs_list # <<>>
               /\ rows[i][id_column] \in SeqToSet(summary_wbs_list)
            THEN "summary-wbs"
            ELSE ""]

\* the HTML preview of a report generator: generate_formatted_html on the
\* table with flattened labels (flattened in place by BudgetExcelFormatter,
\* flattened and numbered again by generate_budget_updates_report)
RunPreview ==
    /\ StageDue("preview")
    /\ run' = [Completed("preview", run.columns, run.rows) EXCEPT
                  !.html = RowClasses(run.columns, run.rows, cls.summary)]
    /\ UNCHANGED <<wbs_list, cls, files, summary, pattern, err, last, prov, call, detail,
                   parsed, master, cache, table, mcall>>

NextRun ==
    \/ RunClean \/ RunRead \/ RunParseStage \/ RunMap \/ RunDrop
    \/ RunClassifyStage \/ RunAssemble \/ RunRemove \/ RunPreview

SpecRun == InitRun /\ [][NextRun]_vars

----------------------------------------------------------------------------
(* Project analytics: extract_project_data and generate_cross_tab of the     *)
(* desktop GlimpsOfProjects, and GlimpsOfProjectsProcessor.process_data     *)
(* under generate_glimps_of_projects_report                                 *)

MaxProjectLines == 2    \* most lines of a project file

\* no match of the project-identifier pattern
NoMatch == <<"<no match>">>

\* r"PRJ\s+([A-Z0-9-]+)" matches at position i of the line: the marker, a
\* run of whitespace and a run of identifier characters
ProjectIdAt(line, i) ==
    /\ i + 2 <= Len(line)
    /\ SubSeq(line, i, i + 2) = <<"P", "R", "J">>
    /\ LET rest == SubSeq(line, i + 3, Len(line))
           ws == RunLen(rest, WS)
       IN  /\ ws >= 1
           /\ RunLen(SubSeq(rest, ws + 1, Len(rest)), Uppers \cup Digits \cup {"-"}) >= 1

\* re.search(project_id_pattern, line): group(1) of the leftmost match
ProjectIdSearch(line) ==
    IF \E i \in 1..Len(line) : ProjectIdAt(line, i)
    THEN LET i == CHOOSE x \in 1..Len(line) :
                      /\ ProjectIdAt(line, x)
                      /\ \A y \in 1..(x - 1) : ~ProjectIdAt(line, y)
             rest == SubSeq(line, i + 3, Len(line))
             ws == RunLen(rest, WS)
             n == RunLen(SubSeq(rest, ws + 1, Len(rest)), Uppers \cup Digits \cup {"-"})
         IN  SubSeq(rest, ws + 1, ws + n)
    ELSE NoMatch

\* Config.COMPANY_CODES
COMPANY_CODES ==
    (<<"N", "L">> :> "NLCIL") @@ (<<"N", "T">> :> "NTPL") @@ (<<"N", "U">> :> "NUPPL")
    @@ (<<"N", "R">> :> "NIRL") @@ (<<"N", "G">> :> "NIGEL")

\* Config.PROJECT_TYPES
PROJECT_TYPES ==
    ("S" :> "Service") @@ ("I" :> "Income") @@ ("N" :> "Non-Plan") @@ ("C" :> "Capex")
    @@ ("E" :> "Excetra") @@ ("F" :> "Feasibility") @@ ("R" :> "R&D") @@ ("O" :> "Opex")
    @@ ("M" :> "Material")

\* dict.get(key, default)
DictGet(d, key, default) == IF key \in DOMAIN d THEN d[key] ELSE default

\* project_id[:2]
FirstTwo(id) == SubSeq(id, 1, IF Len(id) < 2 THEN Len(id) ELSE 2)

\* the identifiers matched in the lines of a file, in line order
RECURSIVE MatchedIds(_)
MatchedIds(lines) ==
    IF lines = <<>> THEN <<>>
    ELSE LET id == ProjectIdSearch(Head(lines))
         IN  (IF id = NoMatch THEN <<>> ELSE <<id>>) \o MatchedIds(Tail(lines))

\* the entry process_data appends for one identifier
ServiceEntry(id) ==
    [type |-> IF Len(id) > 3
              THEN DictGet(PROJECT_TYPES, id[4], "Unknown Project Type")
              ELSE "Unknown Project Type",
     company |-> DictGet(COMPANY_CODES, FirstTwo(id), "Unknown Company"),
     id |-> id]

\* the entry extract_project_data appends for one identifier; project_id[3]
\* raises IndexError for an identifier of fewer than four characters
GuiEntry(id) ==
    [type |-> DictGet(PROJECT_TYPES, id[4], "Unknown Project Type"),
     company |-> DictGet(COMPANY_CODES, FirstTwo(id), "Unknown Company"),
     id |-> id]

\* pd.crosstab(df["Project Type"], df["Company"], margins=True): the count of
\* every observed (type, company) pair and the grand total
CrossTab(data) ==
    [cells |-> [p \in {<<data[i].type, data[i].company>> : i \in 1..Len(data)} |->
                   Cardinality({i \in 1..Len(data) :
                                   <<data[i].type, data[i].company>> = p})],
     total |-> Len(data)]

\* no report: the value of a call that raised
NoReport == [kind |-> "raised", data |-> <<>>, cells |-> <<>>, total |-> 0]

\* lines of a project file
ProjectLines ==
    {<<"P", "R", "J", " ", "N", "T", "-", "I", "-", "X", "Y", "Z", "-", "0", "4", "5">>,
     <<"P", "R", "J", " ", " ", "N", "L", "-", "C", "-", "1">>,
     <<"P", "R", "J", " ", "Z", "Z", "-", "Q", "-", "1">>,
     <<"P", "R", "J", " ", "N", "T">>,
     <<"W", "B", "S", " ", "N", "T", "-", "I">>,
     <<"P", "R", "J", " ", "n", "t", "-", "i">>}

ProjectFiles == UNION {[1..n -> ProjectLines] : n \in 0..MaxProjectLines}

InitProjects ==
    /\ \E lines \in ProjectFiles : call = [Idle EXCEPT !.arg = lines]
    /\ wbs_list = <<>>
    /\ cls = NoCall
    /\ files = [f \in FileNames |-> Absent]
    /\ prov = [f \in FileNames |-> "none"]
    /\ last = NoClean
    /\ err = NoError
    /\ summary = "unset"
    /\ pattern = "none"
    /\ detail = NoField
    /\ parsed = NoParse
    /\ MasterRunIdle

\* main of the desktop GlimpsOfProjects: extract_project_data, then
\* generate_cross_tab, which returns None for an empty list; the report is
\* written only if it is not None
GlimpsMainGui ==
    /\ call.op = "none"
    /\ LET ids == MatchedIds(call.arg)
       IN  IF \E i \in 1..Len(ids) : Len(ids[i]) < 4
           THEN /\ err' = Exc("IndexError", "none")
                /\ call' = [call EXCEPT !.op = "gui", !.result = NoReport]
           ELSE LET data == [i \in 1..Len(ids) |-> GuiEntry(ids[i])]
                IN  /\ err' = err
                    /\ call' = [call EXCEPT !.op = "gui", !.result =
                           IF data = <<>>
                           THEN [NoReport EXCEPT !.kind = "None"]
                           ELSE [kind |-> "crosstab", data |-> data,
                                 cells |-> CrossTab(data).cells,
                                 total |-> CrossTab(data).total]]
    /\ UNCHANGED <<wbs_list, cls, files, summary, pattern, last, prov, detail, parsed,
                   master, cache, table, mcall, run>>

\* generate_glimps_of_projects_report: validate_input rejects an empty file
\* and process_data a file without a match, both with ValueError, which
\* the handle_error of the generator wraps
GenerateGlimpsService ==
    /\ call.op = "none"
    /\ LET ids == MatchedIds(call.arg)
           data == [i \in 1..Len(ids) |-> ServiceEntry(ids[i])]
       IN  IF call.arg = <<>> \/ data = <<>>
           THEN /\ err' = HandleErrorService(Exc("ValueError", "none"))
                /\ call' = [call EXCEPT !.op = "service", !.result = NoReport]
           ELSE /\ err' = err
                /\ call' = [call EXCEPT !.op = "service", !.result =
                       [kind |-> "crosstab", data |-> data,
                        cells |-> CrossTab(data).cells,
                        total |-> CrossTab(data).total]]
    /\ UNCHANGED <<wbs_list, cls, files, summary, pattern, last, prov, detail, parsed,
                   master, cache, table, mcall, run>>

NextProjects == GlimpsMainGui \/ GenerateGlimpsService

SpecProjects == InitProjects /\ [][NextProjects]_vars

----------------------------------------------------------------------------
(* Indian currency formatting: the copies of format_indian_currency.  A     *)
(* numeric value is given by its sign and by its magnitude rounded to two   *)
(* decimals: the integer part and the hundredths.  A character outside      *)
(* ASCII is written as its code point, "<U+20B9>" for the rupee sign.       *)

\* the modules that define format_indian_currency
CurrencyCopies ==
    {"formatting", "budget_report_service", "budget_updates_service",
     "budget_variance_service", "test_currency_standalone"}

\* str(n) of a natural number
RECURSIVE IntDigits(_)
IntDigits(n) ==
    IF n < 10 THEN <<DigitChars[n + 1]>>
    ELSE Append(IntDigits(n \div 10), DigitChars[(n % 10) + 1])

\* the loop "while remaining: groups.append(remaining[-2:]); remaining =
\* remaining[:-2]" followed by groups.reverse()
RECURSIVE PairGroups(_)
PairGroups(remaining) ==
    IF remaining = <<>> THEN <<>>
    ELSE IF Len(remaining) <= 2 THEN <<remaining>>
    ELSE Append(PairGroups(SubSeq(remaining, 1, Len(remaining) - 2)),
                SubSeq(remaining, Len(remaining) - 1, Len(remaining)))

\* the Indian numbering system applied to integer_part
IndianGroups(integer_part) ==
    IF Len(integer_part) <= 3 THEN integer_part
    ELSE LET last_three == SubSeq(integer_part, Len(integer_part) - 2, Len(integer_part))
             remaining == SubSeq(integer_part, 1, Len(integer_part) - 3)
         IN  Join(<<",">>, PairGroups(remaining)) \o <<",">> \o last_three

\* the characters in front of the blank in the result literal of a copy:
\* U+20B9, or the three characters U+00E2 U+0082 U+00B9
CurrencySymbol(copy) ==
    IF copy \in {"budget_report_service", "budget_updates_service"}
    THEN <<"<U+00E2>", "<U+0082>", "<U+00B9>">>
    ELSE <<"<U+20B9>">>

\* format_indian_currency(value) of a copy, for a numeric value
format_indian_currency(copy, value) ==
    LET integer_part == IntDigits(value.int)
        decimal_part == Format02d(value.frac)
        result == CurrencySymbol(copy) \o <<" ">> \o IndianGroups(integer_part)
                      \o <<".">> \o decimal_part
    IN  IF value.neg THEN <<"-">> \o result ELSE result

\* numeric values handed to the formatter
Amounts ==
    {[neg |-> n, int |-> i, frac |-> f] :
        n \in BOOLEAN,
        i \in {0, 5, 123, 999, 1000, 5000, 12345, 50000, 123456, 150000,
               5000000, 12345678, 1234567890},
        f \in {0, 50}} \ {[neg |-> TRUE, int |-> 0, frac |-> 0]}

InitCurrency ==
    /\ \E v \in Amounts : call = [Idle EXCEPT !.arg = v]
    /\ wbs_list = <<>>
    /\ cls = NoCall
    /\ files = [f \in FileNames |-> Absent]
    /\ prov = [f \in FileNames |-> "none"]
    /\ last = NoClean
    /\ err = NoError
    /\ summary = "unset"
    /\ pattern = "none"
    /\ detail = NoField
    /\ parsed = NoParse
    /\ MasterRunIdle

\* one call of format_indian_currency of one of the copies
FormatIndianCurrency ==
    /\ call.op = "none"
    /\ \E copy \in CurrencyCopies :
           call' = [call EXCEPT !.op = copy,
                                !.result = format_indian_currency(copy, call.arg)]
    /\ UNCHANGED <<wbs_list, cls, files, summary, pattern, err, last, prov, detail,
                   parsed, master, cache, table, mcall, run>>

NextCurrency == FormatIndianCurrency

SpecCurrency == InitCurrency /\ [][NextCurrency]_vars

----------------------------------------------------------------------------
(* Error propagation: an exception raised in the body of an operation that  *)
(* is decorated with handle_error, and the decorated operations it passes   *)
(* through on its way to the outermost caller                               *)

MaxWrap == 4    \* most decorated operations an exception passes through

\* the exceptions the bodies raise: the custom kinds with their error
\* codes, and built-in exceptions
RaisedErrors ==
    {Exc("FileProcessingError", c) :
        c \in {"FILE_NOT_FOUND", "INVALID_FILE", "EMPTY_FILE", "PARSE_ERROR",
               "CLEANING_ERROR", "MASTER_DATA_ERROR"}}
    \cup {Exc("DataValidationError", c) :
        c \in {"NULL_DATAFRAME", "INSUFFICIENT_DATA", "MISSING_COLUMNS"}}
    \cup {Exc(k, "none") : k \in {"FileNotFoundError", "PermissionError", "ValueError"}}

\* call.op is the handle_error in use, call.arg the exception the body will
\* raise, call.result the number of decorated operations passed so far
InitErrors ==
    /\ \E v \in Variants, e \in RaisedErrors :
           call = [op |-> v, arg |-> e, result |-> 0]
    /\ wbs_list = <<>>
    /\ cls = NoCall
    /\ files = [f \in FileNames |-> Absent]
    /\ prov = [f \in FileNames |-> "none"]
    /\ last = NoClean
    /\ err = NoError
    /\ summary = "unset"
    /\ pattern = "none"
    /\ detail = NoField
    /\ parsed = NoParse
    /\ MasterRunIdle

\* the body of the innermost operation raises; the wrapper of that
\* operation handles the exception
RaiseInWrapped ==
    /\ call.op \in Variants
    /\ err = NoError
    /\ err' = handle_error(call.op, call.arg)
    /\ call' = [call EXCEPT !.result = 1]
    /\ UNCHANGED <<wbs_list, cls, files, summary, pattern, last, prov, detail, parsed,
                   master, cache, table, mcall, run>>

\* the exception leaves one more decorated operation on the call stack
PropagateThroughWrapper ==
    /\ call.op \in Variants
    /\ err # NoError
    /\ call.result < MaxWrap
    /\ err' = handle_error(call.op, err)
    /\ call' = [call EXCEPT !.result = @ + 1]
    /\ UNCHANGED <<wbs_list, cls, files, summary, pattern, last, prov, detail, parsed,
                   master, cache, table, mcall, run>>

NextErrors == RaiseInWrapped \/ PropagateThroughWrapper

SpecErrors == InitErrors /\ [][NextErrors]_vars

----------------------------------------------------------------------------
(* Properties of the hierarchy classifier *)

\* the distinct non-blank trimmed identifiers of a list
DistinctIds(list) ==
    {Strip(list[i]) : i \in {j \in 1..Len(list) :
                                ~IsNa(list[j]) /\ Strip(list[j]) # <<>>}}

\* C1: classify_wbs_elements returns a partition of the distinct non-blank
\* trimmed identifiers: no identifier in both lists, together exactly those
\* identifiers, each exactly once.
C1_Partition ==
    cls.method = "regex" =>
        /\ SeqToSet(cls.summary) \cap SeqToSet(cls.transaction) = {}
        /\ SeqToSet(cls.summary) \cup SeqToSet(cls.transaction) = DistinctIds(wbs_list)
        /\ Len(cls.summary) + Len(cls.transaction) = Cardinality(DistinctIds(wbs_list))

\* some other identifier of the input is p followed by a hyphen and two digits
HasTwoDigitChild(p, list) ==
    \E q \in DistinctIds(list) : \E d1, d2 \in Digits : q = p \o <<"-", d1, d2>>

\* C2: an identifier is summary iff another identifier of the input equals it
\* followed by a hyphen and exactly two digits, and is transaction otherwise.
C2_SummaryIffChild ==
    cls.method = "regex" =>
        \A p \in DistinctIds(wbs_list) :
            /\ p \in SeqToSet(cls.summary) <=> HasTwoDigitChild(p, wbs_list)
            /\ p \in SeqToSet(cls.transaction) <=> ~HasTwoDigitChild(p, wbs_list)

\* a parent with its child and an identifier that has it as a mere prefix
C2_Witness ==
    /\ cls.method = "regex"
    /\ A0 \in SeqToSet(cls.summary)
    /\ A01 \in SeqToSet(cls.transaction)
    /\ AB \in SeqToSet(cls.transaction)

\* an input of trimmed, non-blank text identifiers only
TextOnly(list) ==
    \A i \in 1..Len(list) :
        ~IsNa(list[i]) /\ list[i] # <<>> /\ Strip(list[i]) = list[i]

\* C3: the membership-probe classifier and the all-pairs regex classifier
\* return the same summary and transaction partitions for the same input
\* (stated here for inputs of trimmed text identifiers, compared as sets).
C3_ProbeEqualsRegex ==
    (cls.method = "probe" /\ cls.raised = "none" /\ TextOnly(wbs_list)) =>
        /\ SeqToSet(cls.summary) = SeqToSet(updates_process_wbs(wbs_list).summary)
        /\ SeqToSet(cls.transaction) = SeqToSet(updates_process_wbs(wbs_list).transaction)

----------------------------------------------------------------------------
(* Properties of the line cleaner *)

\* the last operation was a clean_dat_file call that returned normally
CleanOk == last.op \in Variants /\ err = NoError

\* the zero-based position an index of a pattern denotes among N lines
Denotes(N, k) == IF k < 0 THEN N + k ELSE k

\* the positions of N lines that the pattern pat does not name
KeptPositions(N, pat) ==
    {i \in 0..(N - 1) : \A k \in 1..Len(pat) : i # Denotes(N, pat[k])}

Recleaned == last.op \in Variants /\ last.srcprov = last.pat

C8_EmptyFileError ==
    (last.op \in Variants /\ last.read = <<>>) =>
        /\ err # NoError
        /\ err[1] = [kind |-> "FileProcessingError", code |-> "EMPTY_FILE"]

----------------------------------------------------------------------------
(* Properties of the standard budget report *)

\* the budget-report cleaner has run to completion
BudgetCleaned == last.op \in {"gui_clean_data", "service_clean_data"} /\ err = NoError

\* the first line of the raw export whose first word is the sentinel is its
\* third line
ObjectOnThirdLine(lines) ==
    /\ Len(lines) >= 3
    /\ lines[3].words # <<>>
    /\ lines[3].words[1] = "Object"
    /\ \A i \in 1..2 : lines[i].words = <<>> \/ lines[i].words[1] # "Object"

\* the table was cleaned as a summary export (pattern B), which is when the
\* isSummaryExport flag of C5 is true
IsSummaryExport == pattern = "B"

\* C4: when isSummaryExport is true the classification is skipped: the
\* summary partition is empty and every identifier is reported as
\* transaction, whatever parent/child suffixes the identifiers have.
C4_SummaryExportNotClassified ==
    (cls.method \in {"gui", "service"} /\ IsSummaryExport) =>
        /\ cls.summary = <<>>
        /\ SeqToSet(cls.transaction) = SeqToSet(wbs_list)

\* C5: pattern A with isSummaryExport false if the first sentinel line is the
\* third line of the file, pattern B with isSummaryExport true in every other
\* case (a cleaner that keeps no flag is held to the pattern only).
C5_PatternBySentinelLine ==
    BudgetCleaned =>
        IF ObjectOnThirdLine(last.read)
        THEN pattern = "A" /\ summary \in {"False", "unset"}
        ELSE pattern = "B" /\ summary \in {"True", "unset"}

\* C30: the sentinel scan of the desktop budget-report cleaner completes
\* without an error on every file, with blank lines before the sentinel
\* line or without a sentinel line, and one of the two patterns is applied.
C30_SentinelScanCompletes ==
    last.op = "gui_clean_data" =>
        /\ err = NoError
        /\ pattern \in {"A", "B"}

----------------------------------------------------------------------------
(* Properties of the WBS detail parser *)

\* the depth-marker vocabulary
DepthMarkers ==
    {<<"*">>, <<"*", "*">>, <<"*", "*", "*">>, <<"4", "*">>, <<"5", "*">>, <<"6", "*">>}

\* the tokens of the field, in source order
FieldTokens(d) ==
    d.lead \o (IF d.order = "default" THEN d.words \o d.id ELSE d.id \o d.words)

StartsWith(text, prefix) ==
    Len(text) >= Len(prefix) /\ SubSeq(text, 1, Len(prefix)) = prefix

\* the parser of the framework or of the budget-updates service has parsed a
\* field of its own token order that has a leading token and at least one more
ParsedOwnOrder ==
    /\ \/ parsed.parser = "framework" /\ detail.order = "default"
       \/ parsed.parser = "updates" /\ detail.order = "updates"
    /\ detail.lead # <<>>
    /\ Len(FieldTokens(detail)) >= 2

\* C9: the leading token is the level iff it is one of *, **, ***, 4*, 5*, 6*;
\* any other leading token starts the description and the level is blank.
C9_LevelIffDepthMarker ==
    ParsedOwnOrder =>
        LET token == detail.lead[1]
        IN  IF token \in DepthMarkers
            THEN parsed.level = token
            ELSE Strip(parsed.level) = <<>> /\ StartsWith(parsed.description, token)

\* C10: a field 'marker d1 ... dk identifier' (k >= 1, marker in the
\* vocabulary) parses to level = marker, description = d1 ... dk joined by
\* single spaces, id = the identifier token.
C10_DefaultOrderParse ==
    ( /\ parsed.parser \in {"framework", "gui"}
      /\ detail.order = "default"
      /\ detail.lead # <<>> /\ detail.lead[1] \in DepthMarkers
      /\ Len(detail.words) >= 1
      /\ \A i \in 1..Len(detail.words) : detail.words[i] # <<"P", "R", "J">>
      /\ detail.id # <<>> ) =>
        /\ parsed.level = detail.lead[1]
        /\ parsed.description = Join(<<" ">>, detail.words)
        /\ parsed.id = detail.id[1]

\* the leading token is absent, a plain word, or a marker every parser accepts
PlainLead(d) ==
    d.lead = <<>> \/ d.lead[1] \in {<<"*">>, <<"*", "*", "*">>, <<"x">>}

\* the tokens of the field that are neither the depth marker nor the identifier
RemainingTokens(d) ==
    (IF d.lead # <<>> /\ d.lead[1] \notin DepthMarkers THEN d.lead ELSE <<>>) \o d.words

\* the framework parser or the budget-updates parser has parsed a field of its
\* own token order that holds an identifier and at least two tokens
ParsedWithId ==
    /\ \/ parsed.parser = "framework" /\ detail.order = "default"
       \/ parsed.parser = "updates" /\ detail.order = "updates"
    /\ detail.id # <<>>
    /\ Len(FieldTokens(detail)) >= 2

\* C11: the description is the remaining tokens (the field without its depth
\* marker and its identifier) separated by single spaces, with no leading or
\* trailing whitespace, for fields with and without a marker in either order.
C11_DescriptionSingleSpaced ==
    (ParsedWithId /\ PlainLead(detail)) =>
        parsed.description = Join(<<" ">>, RemainingTokens(detail))

\* t is a sequence of '-NN' child suffixes
RECURSIVE ChildSuffixes(_)
ChildSuffixes(t) ==
    \/ t = <<>>
    \/ /\ Len(t) >= 3
       /\ t[1] = "-" /\ IsDigit(t[2]) /\ IsDigit(t[3])
       /\ ChildSuffixes(SubSeq(t, 4, Len(t)))

\* the identifier grammar: [A-Z]{2}-[A-Z]-[A-Z]{3}-\d{3} followed by any
\* number of '-NN' child suffixes
IdGrammar(t) == IdMatchAt(t, 1) /\ ChildSuffixes(SubSeq(t, 13, Len(t)))

\* C12: the identifier extract_parts returns is the whole token matching the
\* identifier grammar, child suffixes included, and no part of the identifier
\* remains in the description.
C12_WholeIdentifierExtracted ==
    (parsed.parser = "gui" /\ detail.id # <<>> /\ IdGrammar(detail.id[1])) =>
        /\ parsed.id = detail.id[1]
        /\ "-" \notin SeqToSet(parsed.description)

\* C27: in the budget-updates pipeline the cleaner followed by the parser,
\* on a raw field 'marker identifier d1 ... dk', gives id = the identifier
\* token and level = the marker: cleaning does not change which token is
\* taken as the identifier.
C27_CleaningKeepsIdentifier ==
    ( /\ parsed.parser = "updates_pipeline"
      /\ detail.order = "updates"
      /\ detail.lead # <<>> /\ detail.lead[1] \in UpdatesLevels
      /\ detail.id # <<>> ) =>
        /\ parsed.id = detail.id[1]
        /\ parsed.level = detail.lead[1]

----------------------------------------------------------------------------
(* Properties of the master-data mapper *)

MapOps == {"framework_map", "service_map", "gui_map"}

\* the last operation was a mapper call that returned normally after it looked
\* the rows up in a master table that has the key and name columns
Mapped ==
    /\ mcall.op \in MapOps
    /\ err = NoError
    /\ mcall.source # Missing /\ HasColumns(mcall.source) /\ mcall.source # <<>>

\* every identifier of the rows and every key of the index is already trimmed
AllTrimmed(rows, index) ==
    /\ \A i \in 1..Len(rows) : IsNa(rows[i].id) \/ Strip(rows[i].id) = rows[i].id
    /\ \A j \in 1..Len(index) : Strip(index[j].key) = index[j].key

\* C13: after mapping, a row whose identifier is in the index has the indexed
\* name as its description, and a row whose identifier is not in the index
\* keeps the description it had (stated for trimmed identifiers and keys).
C13_MappedOrKept ==
    (Mapped /\ AllTrimmed(mcall.before, mcall.source)) =>
        /\ Len(table) = Len(mcall.before)
        /\ \A i \in 1..Len(table) :
               LET k == mcall.before[i].id
                   hits == {j \in 1..Len(mcall.source) : mcall.source[j].key = k}
               IN  IF hits # {}
                   THEN \E j \in hits : table[i].description = mcall.source[j].name
                   ELSE table[i].description = mcall.before[i].description

\* C14: the lookup compares trimmed strings on both sides: a row identifier
\* and an index key that are equal after trimming resolve to each other and
\* the description becomes the indexed name.
C14_TrimmedLookup ==
    Mapped =>
        \A i \in 1..Len(table) : \A j \in 1..Len(mcall.source) :
            (~IsNa(mcall.before[i].id)
             /\ Strip(mcall.before[i].id) = Strip(mcall.source[j].key)) =>
                table[i].description = mcall.source[j].name

\* C15: when the master source is missing, empty or unavailable the mapper
\* does not fail: it returns normally with every row unchanged.
C15_MasterLoadFailureTolerated ==
    (mcall.op \in MapOps /\ mcall.source \in {Missing, <<>>}) =>
        /\ err = NoError
        /\ table = mcall.before

\* C16: after one successful load_master_data(p), every later
\* load_master_data(p) returns that table without reading or validating the
\* source again, whatever has happened to the source; a load that fails leaves
\* no cache entry for p.
C16_CachedForever ==
    mcall.op = "load" =>
        /\ mcall.known # NoEntry =>
               /\ err = NoError
               /\ mcall.returned = mcall.known
               /\ mcall.read = "no"
        /\ err # NoError => cache[mcall.path] = NoEntry

\* a load of a path loaded before, after its workbook was deleted
C16_Witness ==
    /\ mcall.op = "load"
    /\ mcall.known # NoEntry
    /\ mcall.source = Missing
    /\ mcall.returned = mcall.known
    /\ err = NoError

----------------------------------------------------------------------------
(* Properties of a report run *)

\* the stage order of the pipeline
PipelineOrder == <<"clean", "read", "parse", "classify", "map", "assemble">>

IsPipelineStage(name) == \E i \in 1..Len(PipelineOrder) : PipelineOrder[i] = name

\* C17: the stages of a run complete in the order clean, read, parse,
\* classify, map, assemble; in particular classification completes before the
\* master-data mapping starts, in every variant.
C17_StagesInOrder ==
    LET done == SelectSeq(run.stages, IsPipelineStage)
    IN  done = SubSeq(PipelineOrder, 1, Len(done))

\* the run has assembled its output table
Assembled == \E i \in 1..Len(run.stages) : run.stages[i] = "assemble"

\* C20: the assembled table has the serial-number column first, holding
\* 1, 2, ..., n in row order (n rows, numbered after the row drop), followed
\* by the Level, Description and Identifier columns.
C20_SerialColumnFirst ==
    Assembled =>
        /\ Len(run.columns) >= 4
        /\ run.columns[1] = SlNo
        /\ \A i \in 1..Len(run.rows) : run.rows[i][1] = i
        /\ run.columns[2] = Flatten(ColLevel)
        /\ run.columns[3] = Flatten(ColDescription)
        /\ run.columns[4] = Flatten(ColIdNo)

\* a row of the export in which every field is empty
EmptySourceRow(row) == \A c \in 1..Len(row) : IsNa(row[c])

\* the run has completed its row drop
Dropped == \E i \in 1..Len(run.stages) : run.stages[i] = "drop"

\* C21: after the row drop the table holds one row for each source row that
\* has a non-empty field, and none for a source row whose fields are all
\* empty: exactly the empty rows are dropped.
C21_EmptyRowsDropped ==
    Dropped =>
        Len(run.rows) =
            Cardinality({i \in 1..Len(run.input) : ~EmptySourceRow(run.input[i])})

\* the position of the identifier column in the assembled table
IdColumn == ColIndex(run.columns, Flatten(ColIdNo))

\* the table row is a data row whose identifier is in the summary partition
SummaryRow(i) == run.rows[i][IdColumn] \in SeqToSet(cls.summary)

\* C22: in the workbook a service has written, every cell of the sheet row
\* of a data row has the highlight fill if the row's identifier is in the
\* summary partition, and no cell of it has the highlight fill otherwise.
C22_SummaryRowsHighlighted ==
    (Assembled /\ run.variant \in ServiceVariants) =>
        \A i \in 1..Len(run.rows) :
            \A c \in 1..Len(run.columns) :
                (run.fills[i + 1][c] = "90EE90") <=> SummaryRow(i)

\* the run has produced its HTML preview
Previewed == \E i \in 1..Len(run.stages) : run.stages[i] = "preview"

\* C28: in the HTML preview of the budget-report and budget-updates
\* services a row has the class summary-wbs iff the identifier of the row
\* is in the summary list.
C28_PreviewMarksSummaryRows ==
    (Previewed /\ run.variant \in ServiceVariants) =>
        \A i \in 1..Len(run.rows) : (run.html[i] = "summary-wbs") <=> SummaryRow(i)

\* the call of the report generator has returned or raised
RunEnded ==
    \/ err # NoError
    \/ Len(run.stages) = Len(StageOrder(run.variant))

\* C29: when a report generator of the services returns or raises, the
\* cleaned file it wrote for the run does not exist any more.
C29_CleanedFileRemoved ==
    (run.variant \in ServiceVariants /\ RunEnded) => run.cleaned = "absent"

----------------------------------------------------------------------------
(* Further properties of the hierarchy classifier *)

\* C18: classification never fails: for every list of identifiers, with
\* blank, None, NaN or pd.NA entries, the classifier returns without raising
\* and its two lists have no identifier in common.
C18_ClassificationNeverFails ==
    cls.method \in {"regex", "service_regex", "desktop"} =>
        /\ cls.raised = "none"
        /\ SeqToSet(cls.summary) \cap SeqToSet(cls.transaction) = {}

\* C19: the membership-probe classifier returns a two-way partition: every
\* non-empty identifier of the input is in exactly one of summary and
\* transaction, and a duplicated identifier appears once (stated for inputs
\* of trimmed text identifiers).
C19_ProbePartition ==
    (cls.method = "probe" /\ cls.raised = "none" /\ TextOnly(wbs_list)) =>
        /\ SeqToSet(cls.summary) \cap SeqToSet(cls.transaction) = {}
        /\ SeqToSet(cls.summary) \cup SeqToSet(cls.transaction) = DistinctIds(wbs_list)
        /\ Len(cls.summary) + Len(cls.transaction) = Cardinality(DistinctIds(wbs_list))

----------------------------------------------------------------------------
(* Properties of the project analytics *)

\* the analytics extractor has run on the file call.arg
Extracted == call.op \in {"gui", "service"}

\* the display names the lookup tables give for an identifier: the company
\* of its first two characters, the type of its character at index 3
Resolved(id) ==
    [type |-> IF Len(id) >= 4 /\ id[4] \in DOMAIN PROJECT_TYPES
              THEN PROJECT_TYPES[id[4]] ELSE "Unknown Project Type",
     company |-> IF FirstTwo(id) \in DOMAIN COMPANY_CODES
                 THEN COMPANY_CODES[FirstTwo(id)] ELSE "Unknown Company",
     id |-> id]

\* C23: for a file with a matched project identifier the extractor raises
\* no error, and its entry for every matched identifier, of any length,
\* holds the display names of the two codes, "Unknown Company" /
\* "Unknown Project Type" on a miss.
C23_CodesResolvedWithoutError ==
    (Extracted /\ MatchedIds(call.arg) # <<>>) =>
        /\ err = NoError
        /\ call.result.data =
               [i \in 1..Len(MatchedIds(call.arg)) |-> Resolved(MatchedIds(call.arg)[i])]

\* C24: on a file in which no line matches the project-identifier pattern
\* the extractor fails with NoDataError: it returns no cross-tabulation and
\* does not complete without an error.
C24_NoMatchFails ==
    (Extracted /\ MatchedIds(call.arg) = <<>>) =>
        /\ err # NoError
        /\ err[1].kind = "NoDataError"

----------------------------------------------------------------------------
(* Properties of the currency formatting *)

\* the digits with a comma in front of the last three and in front of
\* every pair of digits above them
RECURSIVE CommaGrouped(_)
CommaGrouped(digits) ==
    IF digits = <<>> THEN <<>>
    ELSE LET after == Len(digits) - 1
         IN  <<Head(digits)>>
             \o (IF after >= 3 /\ (after - 3) % 2 = 0 THEN <<",">> ELSE <<>>)
             \o CommaGrouped(Tail(digits))

\* C25: format_indian_currency(v) is the rupee sign and a blank, with "-"
\* in front when v < 0, then the integer digits of |v| grouped Indian style
\* (the last three, then pairs), a point and two decimals; every copy of the
\* function gives this same string.
C25_IndianCurrencyString ==
    call.op \in CurrencyCopies =>
        call.result =
            (IF call.arg.neg THEN <<"-">> ELSE <<>>)
            \o <<"<U+20B9>", " ">>
            \o CommaGrouped(IntDigits(call.arg.int))
            \o <<".">> \o Format02d(call.arg.frac)

----------------------------------------------------------------------------
(* Properties of the error propagation *)

\* C26: an exception raised as FileProcessingError or DataValidationError
\* in a decorated operation reaches the caller, through any number of
\* decorated operations, with the same kind and the same error code, and
\* with the originating exception at the end of its chain.
C26_KnownErrorKeepsKindAndCode ==
    (/\ call.op \in Variants
     /\ err # NoError
     /\ call.arg[1].kind \in {"FileProcessingError", "DataValidationError"}) =>
        /\ err[1].kind = call.arg[1].kind
        /\ err[1].code = call.arg[1].code
        /\ err[Len(err)] = call.arg[1]

====
